---- MODULE Spec2Model ----
(***************************************************************************)
(* Model of the recommendation engine shared by                            *)
(*   backend/app/services/auto_scheduling_service.py   (AutoSchedulingService) *)
(*   backend/app/services/predictive_tasks_service.py  (PredictiveTaskService) *)
(*                                                                         *)
(* Conventions.                                                            *)
(*  - A float the program only copies and compares with literals (a       *)
(*    confidence, an impact, an energy requirement, a session's focus      *)
(*    score) is written in hundredths: 0.85 is 85.                         *)
(*  - A float the program computes (an hourly mean, a block score, the     *)
(*    tolerance, an importance score, the totals of the impact summary) is *)
(*    a Python float, computed operation by operation as IEEE 754 does;    *)
(*    F(85) is the float of the literal 0.85.                              *)
(*  - A datetime is a number of minutes since 00:00 of day 0, a Monday;    *)
(*    NoTime is a None datetime.                                           *)
(*  - None is Python's None.                                               *)
(***************************************************************************)
EXTENDS Integers, Sequences, FiniteSets, TLC

None == "None"

(***************************************************************************)
(* Bounds of the model.                                                    *)
(***************************************************************************)
MaxSessions == 3
MaxDays == 6
MaxTasks == 2
MaxRanked == 6

\* The most calls of the two features in one behaviour.
MaxRuns == 2

(***************************************************************************)
(* Generic helpers.                                                        *)
(***************************************************************************)
Min2(a, b) == IF a < b THEN a ELSE b

Max2(a, b) == IF a > b THEN a ELSE b

Range(s) == {s[i] : i \in 1..Len(s)}

RECURSIVE SeqSum(_)
SeqSum(s) == IF s = <<>> THEN 0 ELSE Head(s) + SeqSum(Tail(s))

\* s[a..] of Python: the elements from 0-based index a on.
SliceFrom(s, a) == IF a >= Len(s) THEN <<>> ELSE SubSeq(s, a + 1, Len(s))

\* s[:n] of Python.
SliceTo(s, n) == SubSeq(s, 1, Min2(n, Len(s)))

\* All sequences over S of length at most n.
SeqsUpTo(S, n) == UNION {[1..k -> S] : k \in 0..n}

RECURSIVE Flatten(_)
Flatten(ss) == IF ss = <<>> THEN <<>> ELSE Head(ss) \o Flatten(Tail(ss))

(***************************************************************************)
(* Python floats (IEEE 754 binary64, round to nearest, ties to even).      *)
(*                                                                         *)
(* A float is [neg, e, m]: its value is (-1)^neg * M * 2^e where M is the  *)
(* natural number with the limbs m, least significant first, in base       *)
(* 2^15; M has exactly 53 bits (2^52 <= M < 2^53), so equal floats are     *)
(* equal records.  0.0 is [neg |-> FALSE, e |-> 0, m |-> <<>>].  Infinities,*)
(* NaN, subnormals and -0.0 do not occur in the program's arithmetic.      *)
(***************************************************************************)
\* A limb holds 15 bits, so that a product of two limbs is a 32-bit integer.
LimbBits == 3 * 5

LimbBase == 2 * 16384

\* The 52 stored bits of the significand and its leading bit.
MantissaBits == 52 + 1

RECURSIVE Pow2(_)
Pow2(k) == IF k = 0 THEN 1 ELSE 2 * Pow2(k - 1)

\* Natural numbers of any size: sequences of limbs, least significant
\* first, without a zero limb at the top.
RECURSIVE BigTrim(_)
BigTrim(a) ==
    IF a /= <<>> /\ a[Len(a)] = 0 THEN BigTrim(SubSeq(a, 1, Len(a) - 1)) ELSE a

RECURSIVE BigOfInt(_)
BigOfInt(n) == IF n = 0 THEN <<>> ELSE <<n % LimbBase>> \o BigOfInt(n \div LimbBase)

Limb(a, i) == IF i <= Len(a) THEN a[i] ELSE 0

\* The limbs of a + b from limb i on; t is limb i of the sum with its carry.
RECURSIVE BigAddFrom(_, _, _, _)
BigAddFrom(a, b, i, t) ==
    IF i > Len(a) /\ i > Len(b)
    THEN (IF t = 0 THEN <<>> ELSE <<t>>)
    ELSE <<t % LimbBase>>
         \o BigAddFrom(a, b, i + 1, Limb(a, i + 1) + Limb(b, i + 1) + t \div LimbBase)

BigAdd(a, b) == BigAddFrom(a, b, 1, Limb(a, 1) + Limb(b, 1))

\* The limbs of a - b (a >= b) from limb i on; t is limb i of the
\* difference, negative when it borrows.
RECURSIVE BigSubFrom(_, _, _, _)
BigSubFrom(a, b, i, t) ==
    IF i > Len(a) THEN <<>>
    ELSE <<t % LimbBase>>
         \o BigSubFrom(a, b, i + 1,
                       Limb(a, i + 1) - Limb(b, i + 1) - (IF t < 0 THEN 1 ELSE 0))

BigSub(a, b) == BigTrim(BigSubFrom(a, b, 1, Limb(a, 1) - Limb(b, 1)))

RECURSIVE BigCmpFrom(_, _, _)
BigCmpFrom(a, b, i) ==
    IF i = 0 THEN 0
    ELSE IF a[i] < b[i] THEN 0 - 1
    ELSE IF a[i] > b[i] THEN 1
    ELSE BigCmpFrom(a, b, i - 1)

\* -1, 0 or 1 as a < b, a = b or a > b.
BigCmp(a, b) ==
    IF Len(a) < Len(b) THEN 0 - 1
    ELSE IF Len(a) > Len(b) THEN 1
    ELSE BigCmpFrom(a, b, Len(a))

\* The limbs of a * k (0 < k < LimbBase) from limb i on; t is limb i of the
\* product with its carry.
RECURSIVE BigMulSmallFrom(_, _, _, _)
BigMulSmallFrom(a, k, i, t) ==
    IF i > Len(a) THEN (IF t = 0 THEN <<>> ELSE <<t>>)
    ELSE <<t % LimbBase>>
         \o BigMulSmallFrom(a, k, i + 1, Limb(a, i + 1) * k + t \div LimbBase)

BigMulSmall(a, k) == IF k = 0 THEN <<>> ELSE BigMulSmallFrom(a, k, 1, Limb(a, 1) * k)

\* a * LimbBase^n
ShiftLimbs(a, n) == IF a = <<>> THEN a ELSE [i \in 1..n |-> 0] \o a

RECURSIVE BigMul(_, _)
BigMul(a, b) ==
    IF b = <<>> THEN <<>>
    ELSE BigAdd(BigMulSmall(a, Head(b)), ShiftLimbs(BigMul(a, Tail(b)), 1))

\* Quotient q and remainder r of a by k, 0 < k < LimbBase, from limb i down.
RECURSIVE BigDivSmallFrom(_, _, _, _, _)
BigDivSmallFrom(a, k, i, rem, q) ==
    IF i = 0 THEN [q |-> BigTrim(q), r |-> rem]
    ELSE BigDivSmallFrom(a, k, i - 1, (rem * LimbBase + a[i]) % k,
                         <<(rem * LimbBase + a[i]) \div k>> \o q)

BigDivSmall(a, k) == BigDivSmallFrom(a, k, Len(a), 0, <<>>)

RECURSIVE SmallBits(_)
SmallBits(n) == IF n = 0 THEN 0 ELSE 1 + SmallBits(n \div 2)

\* The number of bits of a.
BigBits(a) ==
    IF a = <<>> THEN 0 ELSE (Len(a) - 1) * LimbBits + SmallBits(a[Len(a)])

\* a * 2^d
BigShl(a, d) ==
    ShiftLimbs(BigMulSmall(a, Pow2(d % LimbBits)), d \div LimbBits)

\* Whether a limb of a below limb n + 1 is not zero.
LowLimbs(a, n) == \E i \in 1..Min2(n, Len(a)) : a[i] /= 0

\* a \div 2^d as q, with r the remainder of the limbs above the first
\* d \div LimbBits by 2^(d % LimbBits).
BigShr(a, d) ==
    BigDivSmall(SliceFrom(a, d \div LimbBits), Pow2(d % LimbBits))

FZero == [neg |-> FALSE, e |-> 0, m |-> <<>>]

\* The float (-1)^neg * n * 2^e for n /= 0 of at most 53 bits.
FExact(neg, n, e, bits) ==
    [neg |-> neg, e |-> e - (MantissaBits - bits), m |-> BigShl(n, MantissaBits - bits)]

\* The float (-1)^neg * r * 2^e for r of 53 bits or, after a carry, of 54.
FCarried(neg, r, e) ==
    IF BigBits(r) > MantissaBits
    THEN [neg |-> neg, e |-> e + 1, m |-> BigDivSmall(r, 2).q]
    ELSE [neg |-> neg, e |-> e, m |-> r]

\* half.q has 53 bits and half.r is the bit below them; more is whether
\* bits below that one are set.  A tie goes to the even mantissa.
FNearest(neg, half, e, more) ==
    FCarried(neg,
             IF half.r = 1 /\ (more \/ half.q[1] % 2 = 1)
             THEN BigAdd(half.q, <<1>>) ELSE half.q,
             e)

\* The float nearest to n * 2^e, or to a number strictly between n * 2^e
\* and (n + 1) * 2^e when sticky; n /= 0 has the given number of bits.
FRoundBits(neg, n, e, sticky, bits) ==
    IF bits <= MantissaBits
    THEN FExact(neg, n, e, bits)
    ELSE FNearest(neg,
                  BigDivSmall(BigShr(n, bits - MantissaBits - 1).q, 2),
                  e + (bits - MantissaBits),
                  \/ sticky
                  \/ BigShr(n, bits - MantissaBits - 1).r /= 0
                  \/ LowLimbs(n, (bits - MantissaBits - 1) \div LimbBits))

FRound(neg, n, e, sticky) ==
    IF n = <<>> THEN FZero ELSE FRoundBits(neg, n, e, sticky, BigBits(n))

\* float(n) for an int n >= 0.
FInt(n) ==
    IF n = 0 THEN FZero ELSE FExact(FALSE, BigOfInt(n), 0, BigBits(BigOfInt(n)))

FNeg(x) == IF x = FZero THEN x ELSE [x EXCEPT !.neg = ~@]

FAbs(x) == [x EXCEPT !.neg = FALSE]

\* -1, 0 or 1 as |x| < |y|, |x| = |y| or |x| > |y|.
FCmpAbs(x, y) ==
    IF x = FZero THEN (IF y = FZero THEN 0 ELSE 0 - 1)
    ELSE IF y = FZero THEN 1
    ELSE IF x.e < y.e THEN 0 - 1
    ELSE IF x.e > y.e THEN 1
    ELSE BigCmp(x.m, y.m)

\* -1, 0 or 1 as x < y, x = y or x > y.
FCmp(x, y) ==
    IF x.neg /= y.neg THEN (IF x.neg THEN 0 - 1 ELSE 1)
    ELSE (IF x.neg THEN 0 - 1 ELSE 1) * FCmpAbs(x, y)

FLess(x, y) == FCmp(x, y) < 0

FMax(x, y) == IF FLess(x, y) THEN y ELSE x

\* (-1)^xneg * a * 2^e + (-1)^yneg * b * 2^e; order is BigCmp(a, b).
FAddAligned(xneg, a, yneg, b, e, order) ==
    FRound(IF xneg = yneg \/ order >= 0 THEN xneg ELSE yneg,
           IF xneg = yneg THEN BigAdd(a, b)
           ELSE IF order >= 0 THEN BigSub(a, b) ELSE BigSub(b, a),
           e, FALSE)

\* x + y for x, y /= 0, with e the smaller exponent.
FAddAt(x, y, e) ==
    FAddAligned(x.neg, BigShl(x.m, x.e - e), y.neg, BigShl(y.m, y.e - e), e,
                BigCmp(BigShl(x.m, x.e - e), BigShl(y.m, y.e - e)))

\* x + y
FAdd(x, y) ==
    IF x = FZero THEN y
    ELSE IF y = FZero THEN x
    ELSE FAddAt(x, y, Min2(x.e, y.e))

\* x - y
FSub(x, y) == FAdd(x, FNeg(y))

\* x * y
FMul(x, y) ==
    IF x = FZero \/ y = FZero THEN FZero
    ELSE FRound(x.neg /= y.neg, BigMul(x.m, y.m), x.e + y.e, FALSE)

\* x / k for an int k, 0 < k < LimbBase, from the quotient and the remainder
\* of x.m * 2^60 by k.
FDivided(neg, d, e) == FRound(neg, d.q, e, d.r /= 0)

FDivInt(x, k) ==
    IF x = FZero THEN FZero
    ELSE FDivided(x.neg, BigDivSmall(ShiftLimbs(x.m, 4), k), x.e - 4 * LimbBits)

\* The float of the literal p/q: the float nearest to the fraction.
FRatio(p, q) == FDivInt(FInt(p), q)

\* min(x, y) and max(x, y) of Python: the first argument unless the second
\* is smaller (larger).
FMin(x, y) == IF FLess(y, x) THEN y ELSE x

\* The float of the decimal literal with p hundredths, 0 <= p <= 100
\* (0.85 is F(85)).
FHundredths == [p \in 0..100 |-> FRatio(p, 100)]

F(p) == FHundredths[p]

\* res + xs[i] + ... + xs[n], added from left to right.
RECURSIVE FSumFrom(_, _, _, _)
FSumFrom(xs, i, n, res) ==
    IF i > n THEN res ELSE FSumFrom(xs, i + 1, n, FAdd(res, xs[i]))

\* sum(xs) of Python 3.11: from the int 0, left to right.
FSum(xs) == FSumFrom(xs, 1, Len(xs), FZero)

\* numpy's sum of n floats.  Width 0: the floats xs[a], xs[a + 1], ...,
\* added from left to right when they are fewer than 8; up to 128 floats in
\* 8 interleaved partial sums that are added in pairs, then the floats left
\* over; by halves beyond.  Width 1: the partial sum xs[a] + xs[a + 8] + ...
\* of n floats.  Width 2, 4, 8: the sum of so many partial sums in pairs.
RECURSIVE PairwiseSum(_, _, _, _)
PairwiseSum(xs, a, n, width) ==
    IF width = 1 THEN
        (IF n = 1 THEN xs[a]
         ELSE FAdd(PairwiseSum(xs, a, n - 1, 1), xs[a + 8 * (n - 1)]))
    ELSE IF width > 1 THEN
        FAdd(PairwiseSum(xs, a, n, width \div 2),
             PairwiseSum(xs, a + width \div 2, n, width \div 2))
    ELSE IF n < 8 THEN FSumFrom(xs, a, a + n - 1, FZero)
    ELSE IF n <= 128 THEN
        FSumFrom(xs, a + 8 * (n \div 8), a + n - 1, PairwiseSum(xs, a, n \div 8, 8))
    ELSE FAdd(PairwiseSum(xs, a, (n \div 2) - ((n \div 2) % 8), 0),
              PairwiseSum(xs, a + (n \div 2) - ((n \div 2) % 8),
                          n - ((n \div 2) - ((n \div 2) % 8)), 0))

\* np.mean of a non-empty list of floats.
NpMean(xs) == FDivInt(PairwiseSum(xs, 1, Len(xs), 0), Len(xs))

(***************************************************************************)
(* list.sort(key=..., reverse=True) / sorted(..., reverse=True): a stable  *)
(* sort, descending by key.  Items are records with a field k, the key, a  *)
(* float.                                                                  *)
(***************************************************************************)
RECURSIVE InsertDesc(_, _)
InsertDesc(x, s) ==
    IF s = <<>> THEN <<x>>
    ELSE IF FLess(Head(s).k, x.k) THEN <<x>> \o s
    ELSE <<Head(s)>> \o InsertDesc(x, Tail(s))

RECURSIVE SortDescFrom(_, _)
SortDescFrom(s, acc) ==
    IF s = <<>> THEN acc ELSE SortDescFrom(Tail(s), InsertDesc(Head(s), acc))

StableSortDesc(s) == SortDescFrom(s, <<>>)

(***************************************************************************)
(* Text.  A string is a sequence of tokens [w, cased]: w is the token's    *)
(* lower-cased text and cased tells whether the string writes it with      *)
(* capitals; SP is a run of white space.  str.lower() clears cased and     *)
(* str.strip() drops the white space at both ends.                         *)
(***************************************************************************)
Word(w) == [w |-> w, cased |-> TRUE]

Plain(w) == [w |-> w, cased |-> FALSE]

SP == Plain(" ")

Text(w) == <<Word(w)>>

\* A dict without the key (reading it raises KeyError).
NoKey == <<[w |-> "", cased |-> TRUE]>>

\* f"{prefix} {text}"
Prefixed(prefix, text) == <<Word(prefix), SP>> \o text

(***************************************************************************)
(* Data of the scheduling subsystem.                                       *)
(*                                                                         *)
(* PomodoroSession row: [hour, focus_score, interrupted]; hour is          *)
(* completed_at.hour, focus_score 0 stands for a falsy score (0.0 or None).*)
(* Task row: [title, status, priority, due, estimated_pomodoros,           *)
(* created_at]; due is a datetime or NoTime, estimated_pomodoros a number  *)
(* or NoInt (NULL).  Day d is the weekday d % 7 (0 = Monday).              *)
(***************************************************************************)
NoInt == 0 - 1

NoTime == NoInt

\* datetime.combine(day, time(hour=hour))
At(day, hour) == (day * 24 + hour) * 60

\* datetime.hour
HourOf(t) == (t \div 60) % 24

\* datetime.date()
DateOf(t) == t \div (24 * 60)

\* datetime.replace(hour=hour)
ReplaceHour(t, hour) == At(DateOf(t), hour) + (t % 60)

\* timedelta.days of the difference a - b.
DaysBetween(a, b) == (a - b) \div (24 * 60)

Hours == 0..23

DayNames == <<"monday", "tuesday", "wednesday", "thursday", "friday", "saturday", "sunday">>

\* date.weekday()
Weekday(day) == day % 7

\* date.strftime('%A')
DayName(day) == DayNames[Weekday(day) + 1]

\* timedelta(hours=n), timedelta(days=n)
HoursDelta(n) == n * 60

DaysDelta(n) == n * 24 * 60

OptimizationType ==
    [MOVE_MEETING_FROM_PEAK_FOCUS |-> "move_meeting_from_peak_focus",
     BLOCK_FOCUS_TIME |-> "block_focus_time",
     RESCHEDULE_LOW_ENERGY_TASKS |-> "reschedule_low_energy_tasks",
     CONSOLIDATE_MEETINGS |-> "consolidate_meetings",
     ADD_BUFFER_TIME |-> "add_buffer_time",
     OPTIMIZE_CONTEXT_SWITCHING |-> "optimize_context_switching"]

ScheduleOptimization(type, title, confidence, impact, original, suggested, duration) ==
    [optimization_type |-> type, title |-> title, confidence |-> confidence,
     impact_score |-> impact, original_time |-> original,
     suggested_time |-> suggested, duration |-> duration]

ScheduleBlock(start, title, type, moveable, importance, energy) ==
    [start_time |-> start, title |-> title, block_type |-> type,
     moveable |-> moveable, importance |-> importance,
     energy_requirement |-> energy]

(***************************************************************************)
(* _get_productivity_patterns: the pattern computed from the sessions of   *)
(* the lookback window, and the default pattern of the except branch.      *)
(***************************************************************************)
\* session.focus_score or 0.5
FocusOf(s) == IF s.focus_score = 0 THEN F(50) ELSE F(s.focus_score)

HourSessions(sessions, h) == SelectSeq(sessions, LAMBDA s : s.hour = h)

\* np.mean of the hour's focus scores; 0.5 for an hour without sessions.
AvgFocusScore(sessions, h) ==
    LET hs == HourSessions(sessions, h) IN
    IF hs = <<>> THEN F(50)
    ELSE NpMean([i \in 1..Len(hs) |-> FocusOf(hs[i])])

HourlyProductivity(sessions) == [h \in Hours |-> AvgFocusScore(sessions, h)]

\* The sort with equal scores left in descending order of the hour.
SortedHoursTiesReversed(hp) ==
    LET sorted == StableSortDesc([i \in 1..24 |-> [k |-> hp[24 - i], v |-> 24 - i]])
    IN [i \in 1..24 |-> sorted[i].v]

\* hourly_scores.sort(key=lambda x: x[1], reverse=True), as the hours in order.
SortedHours(hp) ==
    LET sorted == StableSortDesc([i \in 1..24 |-> [k |-> hp[i - 1], v |-> i - 1]])
    IN [i \in 1..24 |-> sorted[i].v]

\* peak_threshold = len(hourly_scores) // 4
PeakThreshold == 24 \div 4

PeakHours(hp) == SubSeq(SortedHours(hp), 1, PeakThreshold)

LowEnergyHours(hp) == SubSeq(SortedHours(hp), 24 - PeakThreshold + 1, 24)

FocusBlock(start_hour, score) ==
    [start_hour |-> start_hour, end_hour |-> start_hour + 2,
     productivity_score |-> score,
     focus_quality |-> IF FLess(F(85), score) THEN "high" ELSE "medium"]

RECURSIVE OptimalBlocksFrom(_, _)
OptimalBlocksFrom(hp, start_hour) ==
    IF start_hour >= 22 THEN <<>>
    ELSE LET block_score == FAdd(FAdd(FZero, hp[start_hour]), hp[start_hour + 1])
             avg_block_score == FDivInt(block_score, 2)
         IN
         (IF FLess(F(75), avg_block_score)
          THEN <<FocusBlock(start_hour, avg_block_score)>> ELSE <<>>)
         \o OptimalBlocksFrom(hp, start_hour + 1)

\* Every block labelled 'high', whatever its score.
OptimalFocusBlocksAllHigh(hp) ==
    LET blocks == OptimalBlocksFrom(hp, 0)
    IN [i \in 1..Len(blocks) |-> [blocks[i] EXCEPT !.focus_quality = "high"]]

OptimalFocusBlocks(hp) == OptimalBlocksFrom(hp, 0)

InterruptedCount(sessions) ==
    Cardinality({i \in 1..Len(sessions) : sessions[i].interrupted})

\* max(0.1, 1.0 - interruption_rate) if sessions, else the constructor's 0.5.
ContextSwitchTolerance(sessions) ==
    IF sessions = <<>> THEN F(50)
    ELSE LET interruption_rate == FRatio(InterruptedCount(sessions), Len(sessions))
         IN FMax(F(10), FSub(FInt(1), interruption_rate))

ComputedPattern(sessions) ==
    LET hp == HourlyProductivity(sessions) IN
    [hourly_productivity |-> hp,
     optimal_focus_blocks |-> OptimalFocusBlocks(hp),
     peak_hours |-> PeakHours(hp),
     low_energy_hours |-> LowEnergyHours(hp),
     context_switch_tolerance |-> ContextSwitchTolerance(sessions)]

DefaultPattern ==
    [hourly_productivity |-> [h \in Hours |-> F(50)],
     optimal_focus_blocks |->
        <<[start_hour |-> 9, end_hour |-> 11, productivity_score |-> F(80),
           focus_quality |-> None]>>,
     peak_hours |-> <<9, 10, 14, 15>>,
     low_energy_hours |-> <<12, 13, 16, 17>>,
     context_switch_tolerance |-> F(60)]

\* On a store failure, the pattern of an empty history instead of the default.
PatternsOfEmptyHistory(db_ok, sessions) ==
    ComputedPattern(IF db_ok THEN sessions ELSE <<>>)

\* The value _get_productivity_patterns returns: db_ok is whether the
\* historical store answered.
GetProductivityPatterns(db_ok, sessions) ==
    IF db_ok THEN ComputedPattern(sessions) ELSE DefaultPattern

(***************************************************************************)
(* _get_current_schedule: three sample blocks per weekday of the range,    *)
(* then one block per pending task of the store that is due in the range.  *)
(* A store failure loses the sample blocks too (the except returns []).    *)
(***************************************************************************)
SampleBlocks(day) ==
    IF Weekday(day) < 5
    THEN <<ScheduleBlock(At(day, 9), Text("daily standup"), "meeting", FALSE, 60, 30),
           ScheduleBlock(At(day, 12), Text("client lunch meeting"), "meeting", TRUE, 80, 70),
           ScheduleBlock(At(day, 14), Text("deep work session"), "task", TRUE, 90, 90)>>
    ELSE <<>>

RECURSIVE SampleSchedule(_, _)
SampleSchedule(current_date, end_date) ==
    IF current_date > end_date THEN <<>>
    ELSE SampleBlocks(current_date) \o SampleSchedule(current_date + 1, end_date)

\* Task.status.in_(['pending', 'in_progress']), Task.due_date.between(...)
DueInRange(task, date_range) ==
    /\ task.status \in {"pending", "in_progress"}
    /\ task.due /= NoTime
    /\ task.due >= date_range[1]
    /\ task.due <= date_range[2]

TaskBlock(task) ==
    ScheduleBlock(task.due - HoursDelta(2), task.title, "task", TRUE,
                  IF task.priority = "high" THEN 80 ELSE 60, 70)

TaskBlocks(tasks, date_range) ==
    LET due == SelectSeq(tasks, LAMBDA t : DueInRange(t, date_range))
    IN [i \in 1..Len(due) |-> TaskBlock(due[i])]

\* task.estimated_pomodoros * 25 raises TypeError on a NULL column.
TaskBlocksRaise(tasks, date_range) ==
    \E i \in 1..Len(tasks) :
        DueInRange(tasks[i], date_range) /\ tasks[i].estimated_pomodoros = NoInt

GetCurrentSchedule(db_ok, tasks, date_range) ==
    IF db_ok /\ ~TaskBlocksRaise(tasks, date_range)
    THEN SampleSchedule(DateOf(date_range[1]), DateOf(date_range[2])) \o TaskBlocks(tasks, date_range)
    ELSE <<>>

(***************************************************************************)
(* _identify_optimization_opportunities and the four generators.           *)
(***************************************************************************)
\* max(seq, key=f): the first element of seq with the largest key.
ArgMaxFirst(seq, f) ==
    seq[CHOOSE i \in 1..Len(seq) :
            /\ \A j \in 1..Len(seq) : ~FLess(f[seq[i]], f[seq[j]])
            /\ \A j \in 1..(i - 1) : FLess(f[seq[j]], f[seq[i]])]

\* min(seq, key): the first element of seq with the smallest key.
ArgMinFirst(seq, Key(_)) ==
    seq[CHOOSE i \in 1..Len(seq) :
            /\ \A j \in 1..Len(seq) : ~FLess(Key(seq[j]), Key(seq[i]))
            /\ \A j \in 1..(i - 1) : FLess(Key(seq[i]), Key(seq[j]))]

\* list(range(9, 18))
WorkingHours == [i \in 1..9 |-> i + 8]

\* max() of an empty peak_hours raises ValueError.
FindOptimalTimeSlotRaises(block, patterns) ==
    block.energy_requirement > 70 /\ patterns.peak_hours = <<>>

FindOptimalTimeSlot(block, patterns) ==
    IF block.energy_requirement > 70
    THEN ArgMaxFirst(patterns.peak_hours, patterns.hourly_productivity)
    ELSE ArgMinFirst(WorkingHours, LAMBDA h : patterns.hourly_productivity[h])

FindMeetingAlternativeTime(block, patterns) ==
    LET non_peak_hours ==
            SelectSeq(WorkingHours, LAMBDA h : h \notin Range(patterns.peak_hours))
    IN IF non_peak_hours /= <<>>
       THEN ArgMinFirst(non_peak_hours,
                        LAMBDA h : FAbs(FSub(patterns.hourly_productivity[h], F(60))))
       ELSE HourOf(block.start_time)

\* The reschedule-low-energy-task branch of the loop body, for one block.
RescheduleCondition(block, patterns) ==
    /\ block.block_type = "task"
    /\ block.energy_requirement > 70
    /\ HourOf(block.start_time) \in Range(patterns.low_energy_hours)

RescheduleOpportunity(block, patterns) ==
    IF RescheduleCondition(block, patterns)
    THEN LET suggested_hour == FindOptimalTimeSlot(block, patterns) IN
         IF suggested_hour /= HourOf(block.start_time)
         THEN <<ScheduleOptimization(OptimizationType.RESCHEDULE_LOW_ENERGY_TASKS,
                    Prefixed("reschedule", block.title), 85, 70, block.start_time,
                    ReplaceHour(block.start_time, suggested_hour), NoInt)>>
         ELSE <<>>
    ELSE <<>>

\* The move-meeting-from-peak branch of the loop body, for one block.
MoveMeetingOpportunity(block, patterns) ==
    IF /\ block.block_type = "meeting"
       /\ HourOf(block.start_time) \in Range(patterns.peak_hours)
       /\ block.importance < 90
    THEN LET alternative_hour == FindMeetingAlternativeTime(block, patterns) IN
         IF alternative_hour /= HourOf(block.start_time)
         THEN <<ScheduleOptimization(OptimizationType.MOVE_MEETING_FROM_PEAK_FOCUS,
                    Prefixed("reschedule", block.title), 80, 60, block.start_time,
                    ReplaceHour(block.start_time, alternative_hour), NoInt)>>
         ELSE <<>>
    ELSE <<>>

BlockOpportunities(block, patterns) ==
    IF ~block.moveable THEN <<>>
    ELSE RescheduleOpportunity(block, patterns) \o MoveMeetingOpportunity(block, patterns)

\* The for-loop over the schedule (lines 373-415), in block order.
LoopOpportunities(schedule, patterns) ==
    Flatten([i \in 1..Len(schedule) |-> BlockOpportunities(schedule[i], patterns)])

\* Whether the loop raises: some moveable block reaches a raising slot search.
LoopRaises(schedule, patterns) ==
    \E i \in 1..Len(schedule) :
        /\ schedule[i].moveable
        /\ RescheduleCondition(schedule[i], patterns)
        /\ FindOptimalTimeSlotRaises(schedule[i], patterns)

FocusConflicts(schedule, focus_block) ==
    SelectSeq(schedule, LAMBDA b :
        /\ focus_block.start_hour <= HourOf(b.start_time)
        /\ HourOf(b.start_time) < focus_block.end_hour
        /\ b.moveable
        /\ b.importance < 70)

\* The focus blocks with at most one low-priority conflict (line 478).
FreeFocusBlocks(schedule, patterns) ==
    SelectSeq(patterns.optimal_focus_blocks,
              LAMBDA b : Len(FocusConflicts(schedule, b)) <= 1)

\* Lines 479-488; read_at is the time datetime.now() returns at line 485.
FocusOpportunity(focus_block, read_at) ==
    ScheduleOptimization(OptimizationType.BLOCK_FOCUS_TIME,
        Prefixed("block focus time",
            <<Plain(ToString(focus_block.start_hour) \o ":00-"
                \o ToString(focus_block.end_hour) \o ":00")>>),
        90, 80, NoTime, At(DateOf(read_at), focus_block.start_hour),
        (focus_block.end_hour - focus_block.start_hour) * 60)

\* reads[i] is the time read for the i-th free focus block.
IdentifyFocusBlockOpportunities(schedule, patterns, reads) ==
    LET free == FreeFocusBlocks(schedule, patterns)
    IN [i \in 1..Len(free) |-> FocusOpportunity(free[i], reads[i])]

\* The keys of daily_meetings in insertion order: each day at the position
\* of its first moveable meeting.
RECURSIVE DaysInOrder(_, _)
DaysInOrder(meetings, seen) ==
    IF meetings = <<>> THEN <<>>
    ELSE LET day == DateOf(Head(meetings).start_time) IN
         IF day \in seen THEN DaysInOrder(Tail(meetings), seen)
         ELSE <<day>> \o DaysInOrder(Tail(meetings), seen \cup {day})

ConsolidationOpportunity(meetings, day) ==
    LET day_meetings == SelectSeq(meetings, LAMBDA m : DateOf(m.start_time) = day)
        start_times == {HourOf(day_meetings[i].start_time) : i \in 1..Len(day_meetings)}
        hi == CHOOSE h \in start_times : \A g \in start_times : g <= h
        lo == CHOOSE h \in start_times : \A g \in start_times : g >= h
    IN IF Len(day_meetings) >= 2 /\ hi - lo > 4
       THEN <<ScheduleOptimization(OptimizationType.CONSOLIDATE_MEETINGS,
                  Prefixed("consolidate meetings on", Text(DayName(day))), 70, 50,
                  NoTime, NoTime, NoInt)>>
       ELSE <<>>

IdentifyMeetingConsolidation(schedule) ==
    LET meetings == SelectSeq(schedule,
                        LAMBDA b : b.block_type = "meeting" /\ b.moveable)
        days == DaysInOrder(meetings, {})
    IN Flatten([i \in 1..Len(days) |-> ConsolidationOpportunity(meetings, days[i])])

\* The sort without reverse=True: lowest impact first.
SortByImpactAscending(optimizations) ==
    LET sorted == StableSortDesc([i \in 1..Len(optimizations) |->
                      [k |-> F(optimizations[i].impact_score), v |-> optimizations[i]]])
    IN [i \in 1..Len(sorted) |-> sorted[Len(sorted) + 1 - i].v]

\* optimizations.sort(key=lambda x: x.impact_score, reverse=True)
SortByImpact(optimizations) ==
    LET sorted == StableSortDesc([i \in 1..Len(optimizations) |->
                      [k |-> F(optimizations[i].impact_score), v |-> optimizations[i]]])
    IN [i \in 1..Len(sorted) |-> sorted[i].v]

\* The list built before the sort, generators in their order of execution.
GeneratedOptimizations(schedule, patterns, reads) ==
    LoopOpportunities(schedule, patterns)
        \o IdentifyFocusBlockOpportunities(schedule, patterns, reads)
        \o IdentifyMeetingConsolidation(schedule)

\* The one try/except around all four generators: any exception returns [].
IdentifyOptimizationOpportunities(schedule, patterns, reads) ==
    IF LoopRaises(schedule, patterns) THEN <<>>
    ELSE SortByImpact(GeneratedOptimizations(schedule, patterns, reads))

(***************************************************************************)
(* _execute_optimization and the four executors.  A result is the dict the *)
(* executor returns, with Absent for a key the dict does not hold; cand is *)
(* the rank position of the executed candidate (bookkeeping of the model). *)
(* Only _create_focus_block touches a collaborator that can fail (the task *)
(* store); it catches the failure itself and returns a 'failed' dict, to   *)
(* which _execute_optimization then adds the gain and the confidence.      *)
(***************************************************************************)
Absent == NoInt

ExecutionResult(type, status, error, duration_minutes) ==
    [optimization_type |-> type, status |-> status, error |-> error,
     duration_minutes |-> duration_minutes, cand |-> 0,
     productivity_gain_estimate |-> Absent, confidence |-> Absent]

RescheduleMeeting(opportunity) ==
    ExecutionResult("meeting_reschedule", "suggested", FALSE, Absent)

\* _create_focus_block reporting success whatever the store did.
CreateFocusBlockSilent(opportunity, db_ok) ==
    ExecutionResult("focus_block_created", "created", FALSE, opportunity.duration)

CreateFocusBlock(opportunity, db_ok) ==
    IF db_ok
    THEN ExecutionResult("focus_block_created", "created", FALSE, opportunity.duration)
    ELSE ExecutionResult("focus_block_created", "failed", TRUE, Absent)

RescheduleTask(opportunity) ==
    ExecutionResult("task_reschedule", "rescheduled", FALSE, Absent)

ConsolidateMeetings(opportunity) ==
    ExecutionResult("meeting_consolidation", "suggested", FALSE, Absent)

ExecutorDispatch(opportunity, db_ok) ==
    CASE opportunity.optimization_type = OptimizationType.MOVE_MEETING_FROM_PEAK_FOCUS ->
            RescheduleMeeting(opportunity)
      [] opportunity.optimization_type = OptimizationType.BLOCK_FOCUS_TIME ->
            CreateFocusBlock(opportunity, db_ok)
      [] opportunity.optimization_type = OptimizationType.RESCHEDULE_LOW_ENERGY_TASKS ->
            RescheduleTask(opportunity)
      [] opportunity.optimization_type = OptimizationType.CONSOLIDATE_MEETINGS ->
            ConsolidateMeetings(opportunity)
      [] OTHER ->
            ExecutionResult(opportunity.optimization_type, "not_implemented", FALSE, Absent)

\* _execute_optimization returning a failed result as the executor built
\* it, without the gain and the confidence.
ExecuteOptimizationFailedBare(opportunity, db_ok) ==
    IF ExecutorDispatch(opportunity, db_ok).status = "failed"
    THEN ExecutorDispatch(opportunity, db_ok)
    ELSE [ExecutorDispatch(opportunity, db_ok) EXCEPT
             !.productivity_gain_estimate = opportunity.impact_score,
             !.confidence = opportunity.confidence]

ExecuteOptimization(opportunity, db_ok) ==
    [ExecutorDispatch(opportunity, db_ok) EXCEPT
        !.productivity_gain_estimate = opportunity.impact_score,
        !.confidence = opportunity.confidence]

\* The Task row _create_focus_block adds to the store; created_at is the
\* column default, datetime.utcnow called when the row is inserted
\* (models.py line 40).
FocusTaskRow(uid, opportunity, commit_time) ==
    [user_id |-> uid,
     title |-> Text("focus block"), status |-> "pending", priority |-> "high",
     due |-> opportunity.suggested_time, created_at |-> commit_time,
     estimated_pomodoros |->
        IF opportunity.duration /= NoInt /\ opportunity.duration /= 0
        THEN opportunity.duration \div 25 ELSE 2]

\* Every executor writes a row.
UsesTaskStoreAlways(opportunity) == TRUE

\* Whether executing the candidate uses the task store.
UsesTaskStore(opportunity) ==
    opportunity.optimization_type = OptimizationType.BLOCK_FOCUS_TIME

(***************************************************************************)
(* The selection gate of optimize_schedule (lines 99-101).                 *)
(***************************************************************************)
ConfidenceGate == 80

ImpactGate == 60

MaxExecuted == 5

\* The gate without the limit of executions per run.
SelectedUncapped(opportunity, executed_count) ==
    /\ opportunity.confidence > ConfidenceGate
    /\ opportunity.impact_score > ImpactGate

\* The gate with the confidence compared by >= instead of >.
SelectedAtGate(opportunity, executed_count) ==
    /\ opportunity.confidence >= ConfidenceGate
    /\ opportunity.impact_score > ImpactGate
    /\ executed_count < MaxExecuted

\* The gate with both comparisons by >= instead of >.
SelectedAtBothGates(opportunity, executed_count) ==
    /\ opportunity.confidence >= ConfidenceGate
    /\ opportunity.impact_score >= ImpactGate
    /\ executed_count < MaxExecuted

Selected(opportunity, executed_count) ==
    /\ opportunity.confidence > ConfidenceGate
    /\ opportunity.impact_score > ImpactGate
    /\ executed_count < MaxExecuted

(***************************************************************************)
(* _calculate_optimization_impact.  total_productivity_gain is sum() over  *)
(* the gains and average_confidence np.mean over the confidences, both in  *)
(* floats: 0.8 + 0.7 + 0.7 + 0.7 is 2.9000000000000004.                    *)
(***************************************************************************)
\* dict.get(key, 0) on a result field.
GetOr0(value) == IF value = Absent THEN 0 ELSE value

CalculateOptimizationImpact(results) ==
    IF results = <<>>
    THEN [total_productivity_gain |-> FZero, optimizations_count |-> 0,
          successful_optimizations |-> Absent, average_confidence |-> Absent,
          estimated_focus_time_gained |-> Absent]
    ELSE [total_productivity_gain |->
              FSum([i \in 1..Len(results) |->
                       F(GetOr0(results[i].productivity_gain_estimate))]),
          optimizations_count |-> Len(results),
          successful_optimizations |->
              Cardinality({i \in 1..Len(results) :
                  results[i].status \in {"completed", "created", "rescheduled"}}),
          average_confidence |->
              NpMean([i \in 1..Len(results) |-> F(GetOr0(results[i].confidence))]),
          estimated_focus_time_gained |->
              SeqSum([i \in 1..Len(results) |->
                  IF results[i].optimization_type = "focus_block_created"
                  THEN GetOr0(results[i].duration_minutes) ELSE 0])]

\* The dict cached for review and the dict returned (lines 117-133).
ScheduleResults(results, optimizations, executed_count) ==
    [executed_optimizations |-> results,
     suggested_optimizations |-> SliceFrom(optimizations, executed_count),
     impact_summary |-> CalculateOptimizationImpact(results)]

(***************************************************************************)
(* Data of the prediction subsystem.                                       *)
(*                                                                         *)
(* A dict read with d['key'] holds NoKey (text) when the key is absent; a  *)
(* dict read with d.get('key', default) holds Absent / NoTime then.        *)
(***************************************************************************)
PredictionSource ==
    [PATTERN_BASED |-> "pattern_based", CALENDAR_BASED |-> "calendar_based",
     GOAL_BASED |-> "goal_based", DEADLINE_BASED |-> "deadline_based",
     AI_GENERATED |-> "ai_generated"]

\* The most minutes that pass between the first call of a behaviour and a
\* later read of the clock; a read returns the time of the read before it
\* or a later one.
ClockStep == 1

PredictedTask(title, estimated_duration, confidence, source, priority, due_date) ==
    [title |-> title, estimated_duration |-> estimated_duration,
     confidence |-> confidence, source |-> source, priority |-> priority,
     due_date |-> due_date, importance_score |-> Absent]

\* dict.get(key, default) on a numeric field.
GetOr(value, default) == IF value = Absent THEN default ELSE value

(***************************************************************************)
(* The collaborators of _gather_prediction_context (mock data, relative to *)
(* the time of the call).                                                  *)
(***************************************************************************)
\* _analyze_user_patterns: weekly_tasks and hourly_tasks.
WeeklyTasks(day_name) ==
    CASE day_name = "monday" ->
            <<[title |-> Text("weekly planning"), avg_duration |-> 30, rate |-> 80],
              [title |-> Text("email review"), avg_duration |-> 20, rate |-> 90]>>
      [] day_name = "friday" ->
            <<[title |-> Text("week review"), avg_duration |-> 25, rate |-> 70]>>
      [] OTHER -> <<>>

HourlyTasks(hour) ==
    CASE hour = 9 ->
            <<[title |-> Text("deep work session"), avg_duration |-> 90, rate |-> 60]>>
      [] hour = 14 ->
            <<[title |-> Text("administrative tasks"), avg_duration |-> 45, rate |-> 50]>>
      [] OTHER -> <<>>

AnalyzeUserPatterns ==
    [weekly_tasks |-> [d \in Range(DayNames) |-> WeeklyTasks(d)],
     hourly_tasks |-> [h \in Hours |-> HourlyTasks(h)]]

\* Each collaborator calls datetime.now() once per time it returns; reads
\* holds the times read, in the order of the calls.
GetCalendarEvents(reads) ==
    <<[title |-> Text("team standup"), start_time |-> reads[1] + HoursDelta(2),
       end_time |-> reads[2] + HoursDelta(2) + 30, type |-> "meeting",
       importance_score |-> 60, recurring |-> TRUE],
      [title |-> Text("client presentation"), start_time |-> reads[3] + DaysDelta(1),
       end_time |-> reads[4] + DaysDelta(1) + HoursDelta(1), type |-> "client_meeting",
       importance_score |-> 90, recurring |-> FALSE]>>

GetActiveProjects(reads) ==
    <<[name |-> Text("website redesign"),
       next_milestone_due |-> reads[1] + DaysDelta(3)]>>

GetCurrentGoals(reads) ==
    <<[title |-> Text("learn python"), description |-> TRUE, type |-> "learning",
       deadline |-> reads[1] + DaysDelta(14)],
      [title |-> Text("finish q1 report"), description |-> TRUE, type |-> "project",
       deadline |-> reads[2] + DaysDelta(7)]>>

GetUpcomingDeadlines(reads) ==
    <<[title |-> Text("tax filing"), date |-> reads[1] + DaysDelta(5),
       complexity |-> 80],
      [title |-> Text("project proposal"), date |-> reads[2] + DaysDelta(2),
       complexity |-> 60]>>

\* Task.created_at >= now - 30 days
RecentTasks(tasks, now) ==
    SelectSeq(tasks, LAMBDA t : t.created_at /= NoTime /\ t.created_at >= now - DaysDelta(30))

\* _get_time_period
GetTimePeriod(hour) ==
    IF 5 <= hour /\ hour < 12 THEN "morning"
    ELSE IF 12 <= hour /\ hour < 17 THEN "afternoon"
    ELSE IF 17 <= hour /\ hour < 21 THEN "evening"
    ELSE "night"

\* The lines of _gather_prediction_context and of its collaborators that
\* call datetime.now(), in the order they are reached.
GatherReadLines == <<135, 624, 625, 632, 633, 645, 657, 663, 672, 677, 147>>

\* The reads of a gathering during which the clock stands still.
FrozenReads(t) == [k \in 1..Len(GatherReadLines) |-> t]

\* The PredictionContext built when the store answers: tasks are the rows
\* of the user, reads the times read at GatherReadLines.
GatherPredictionContext(tasks, reads) ==
    [historical_patterns |-> AnalyzeUserPatterns,
     calendar_events |-> GetCalendarEvents(SubSeq(reads, 2, 5)),
     active_projects |-> GetActiveProjects(SubSeq(reads, 6, 6)),
     current_goals |-> GetCurrentGoals(SubSeq(reads, 7, 8)),
     recent_tasks |-> RecentTasks(tasks, reads[1]),
     time_of_day |-> GetTimePeriod(HourOf(reads[11])),
     day_of_week |-> DayName(DateOf(reads[11])),
     upcoming_deadlines |-> GetUpcomingDeadlines(SubSeq(reads, 9, 10))]

(***************************************************************************)
(* The four generators.  Each runs inside its own try/except: an exception *)
(* anywhere in the body makes the generator return [].  XxxRaises tells    *)
(* whether the body raises on the context, XxxTasks is the list the body   *)
(* builds when it does not.                                                *)
(***************************************************************************)
\* --- _pattern_based_prediction ---
\* The confidence taken as the number of occurrences in two weeks rather
\* than as a rate.
WeeklyPredictionOfCount(task_pattern) ==
    PredictedTask(task_pattern.title, GetOr(task_pattern.avg_duration, 25),
                  2 * GetOr(task_pattern.rate, 70), PredictionSource.PATTERN_BASED,
                  "medium", NoTime)

WeeklyPrediction(task_pattern) ==
    PredictedTask(task_pattern.title, GetOr(task_pattern.avg_duration, 25),
                  GetOr(task_pattern.rate, 70), PredictionSource.PATTERN_BASED,
                  "medium", NoTime)

HourlyPrediction(task_pattern) ==
    PredictedTask(task_pattern.title, GetOr(task_pattern.avg_duration, 30),
                  GetOr(task_pattern.rate, 60), PredictionSource.PATTERN_BASED,
                  "medium", NoTime)

MilestoneDue(project, current_time) ==
    /\ project.next_milestone_due /= NoTime
    /\ DaysBetween(project.next_milestone_due, current_time) >= 0
    /\ DaysBetween(project.next_milestone_due, current_time) <= 3

MilestonePrediction(project, current_time) ==
    IF MilestoneDue(project, current_time)
    THEN <<PredictedTask(Prefixed("prepare for", project.name \o <<SP, Plain("milestone")>>),
                60, 75, PredictionSource.PATTERN_BASED, "medium",
                project.next_milestone_due - HoursDelta(4))>>
    ELSE <<>>

\* An incomplete recent task older than three days.
OldIncomplete(task, current_time) ==
    /\ task.status /= "completed"
    /\ DaysBetween(current_time, task.created_at) > 3

FollowUpPrediction(task, current_time) ==
    IF OldIncomplete(task, current_time)
    THEN <<PredictedTask(<<Word("follow up:"), SP>> \o task.title,
                task.estimated_pomodoros * 25, 60,
                PredictionSource.PATTERN_BASED, "medium", NoTime)>>
    ELSE <<>>

PatternBasedTasks(context, current_time) ==
    LET user_patterns == context.historical_patterns
        weekly == user_patterns.weekly_tasks[DayName(DateOf(current_time))]
        hourly == user_patterns.hourly_tasks[HourOf(current_time)]
    IN [i \in 1..Len(weekly) |-> WeeklyPrediction(weekly[i])]
       \o [i \in 1..Len(hourly) |-> HourlyPrediction(hourly[i])]
       \o Flatten([i \in 1..Len(context.active_projects) |->
              MilestonePrediction(context.active_projects[i], current_time)])
       \o Flatten([i \in 1..Len(context.recent_tasks) |->
              FollowUpPrediction(context.recent_tasks[i], current_time)])

\* KeyError on a pattern or project without title / name; TypeError on
\* None * 25 for an old incomplete task whose estimated_pomodoros is NULL.
PatternBasedRaises(context, current_time) ==
    LET user_patterns == context.historical_patterns
        weekly == user_patterns.weekly_tasks[DayName(DateOf(current_time))]
        hourly == user_patterns.hourly_tasks[HourOf(current_time)]
    IN \/ \E i \in 1..Len(weekly) : weekly[i].title = NoKey
       \/ \E i \in 1..Len(hourly) : hourly[i].title = NoKey
       \/ \E i \in 1..Len(context.active_projects) :
             /\ MilestoneDue(context.active_projects[i], current_time)
             /\ context.active_projects[i].name = NoKey
       \/ \E i \in 1..Len(context.recent_tasks) :
             /\ OldIncomplete(context.recent_tasks[i], current_time)
             /\ context.recent_tasks[i].estimated_pomodoros = NoInt

PatternBasedPrediction(context, current_time) ==
    IF PatternBasedRaises(context, current_time) THEN <<>>
    ELSE PatternBasedTasks(context, current_time)

\* --- _calendar_based_prediction ---
\* meeting.get('end_time', meeting_time + timedelta(hours=1))
MeetingEnd(meeting) ==
    IF meeting.end_time = NoTime THEN meeting.start_time + HoursDelta(1)
    ELSE meeting.end_time

MeetingPredictions(meeting) ==
    IF meeting.start_time = NoTime THEN <<>>
    ELSE (IF GetOr(meeting.importance_score, 0) > 70
          THEN <<PredictedTask(Prefixed("prepare for", meeting.title), 30, 80,
                     PredictionSource.CALENDAR_BASED, "medium",
                     meeting.start_time - HoursDelta(2))>>
          ELSE <<>>)
      \o (IF meeting.type = "client_meeting"
          THEN <<PredictedTask(Prefixed("follow up on", meeting.title), 20, 90,
                     PredictionSource.CALENDAR_BASED, "medium",
                     MeetingEnd(meeting) + HoursDelta(4))>>
          ELSE <<>>)
      \o (IF meeting.recurring
          THEN <<PredictedTask(Prefixed("review outcomes from", meeting.title), 15, 70,
                     PredictionSource.CALENDAR_BASED, "medium",
                     MeetingEnd(meeting) + DaysDelta(1))>>
          ELSE <<>>)

MeetingRaises(meeting) ==
    /\ meeting.start_time /= NoTime
    /\ meeting.title = NoKey
    /\ \/ GetOr(meeting.importance_score, 0) > 70
       \/ meeting.type = "client_meeting"
       \/ meeting.recurring

CalendarBasedTasks(context) ==
    Flatten([i \in 1..Len(context.calendar_events) |->
                MeetingPredictions(context.calendar_events[i])])

CalendarBasedRaises(context) ==
    \E i \in 1..Len(context.calendar_events) : MeetingRaises(context.calendar_events[i])

CalendarBasedPrediction(context) ==
    IF CalendarBasedRaises(context) THEN <<>> ELSE CalendarBasedTasks(context)

\* --- _goal_based_prediction ---
GoalPredictions(goal, current_time) ==
    IF goal.deadline = NoTime THEN <<>>
    ELSE LET days_until_deadline == DaysBetween(goal.deadline, current_time) IN
      (IF days_until_deadline > 0
       THEN <<PredictedTask(<<Word("review progress on:"), SP>> \o goal.title, 25, 80,
                  PredictionSource.GOAL_BASED, "medium", NoTime)>>
            \o (IF goal.type = "learning"
                THEN <<PredictedTask(<<Word("study session:"), SP>> \o goal.title, 50, 75,
                           PredictionSource.GOAL_BASED, "medium", NoTime)>>
                ELSE IF goal.type = "project"
                THEN <<PredictedTask(<<Word("work on:"), SP>> \o goal.title, 75, 80,
                           PredictionSource.GOAL_BASED, "medium", NoTime)>>
                ELSE <<>>)
       ELSE <<>>)
      \o (IF 0 < days_until_deadline /\ days_until_deadline <= 7
          THEN <<PredictedTask(<<Word("urgent: final push for"), SP>> \o goal.title, 90, 95,
                     PredictionSource.GOAL_BASED, "high", NoTime)>>
          ELSE <<>>)

GoalRaises(goal, current_time) ==
    /\ goal.deadline /= NoTime
    /\ DaysBetween(goal.deadline, current_time) > 0
    /\ (goal.title = NoKey \/ ~goal.description)

GoalBasedTasks(context, current_time) ==
    Flatten([i \in 1..Len(context.current_goals) |->
                GoalPredictions(context.current_goals[i], current_time)])

GoalBasedRaises(context, current_time) ==
    \E i \in 1..Len(context.current_goals) :
        GoalRaises(context.current_goals[i], current_time)

GoalBasedPrediction(context, current_time) ==
    IF GoalBasedRaises(context, current_time) THEN <<>>
    ELSE GoalBasedTasks(context, current_time)

\* --- _deadline_based_prediction ---
DeadlinePredictions(deadline, current_time) ==
    IF deadline.date = NoTime THEN <<>>
    ELSE LET days_until_deadline == DaysBetween(deadline.date, current_time) IN
      IF days_until_deadline <= 0 THEN <<>>
      ELSE (IF days_until_deadline <= 1
            THEN <<PredictedTask(<<Word("urgent prep:"), SP>> \o deadline.title, 60, 95,
                       PredictionSource.DEADLINE_BASED, "critical",
                       deadline.date - HoursDelta(2))>>
            ELSE IF days_until_deadline <= 3
            THEN <<PredictedTask(<<Word("prepare for:"), SP>> \o deadline.title, 45, 85,
                       PredictionSource.DEADLINE_BASED, "high", NoTime)>>
            ELSE IF days_until_deadline <= 7
            THEN <<PredictedTask(<<Word("plan approach for:"), SP>> \o deadline.title, 30, 70,
                       PredictionSource.DEADLINE_BASED, "medium", NoTime)>>
            ELSE <<>>)
        \o (IF GetOr(deadline.complexity, 0) > 70
            THEN <<PredictedTask(<<Word("buffer time:"), SP>> \o deadline.title, 30, 60,
                       PredictionSource.DEADLINE_BASED, "medium",
                       deadline.date - DaysDelta(1))>>
            ELSE <<>>)

DeadlineRaises(deadline, current_time) ==
    /\ deadline.date /= NoTime
    /\ DaysBetween(deadline.date, current_time) > 0
    /\ deadline.title = NoKey
    /\ \/ DaysBetween(deadline.date, current_time) <= 7
       \/ GetOr(deadline.complexity, 0) > 70

DeadlineBasedTasks(context, current_time) ==
    Flatten([i \in 1..Len(context.upcoming_deadlines) |->
                DeadlinePredictions(context.upcoming_deadlines[i], current_time)])

DeadlineBasedRaises(context, current_time) ==
    \E i \in 1..Len(context.upcoming_deadlines) :
        DeadlineRaises(context.upcoming_deadlines[i], current_time)

DeadlineBasedPrediction(context, current_time) ==
    IF DeadlineBasedRaises(context, current_time) THEN <<>>
    ELSE DeadlineBasedTasks(context, current_time)

\* read_at[g] is the time generator g reads from the clock while it runs
\* (the calendar generator, 2, reads none).
\* The four generators under one try/except: one failure empties all lists.
GeneratePredictionsSharedTry(context, read_at) ==
    IF \/ PatternBasedRaises(context, read_at[1])
       \/ CalendarBasedRaises(context)
       \/ GoalBasedRaises(context, read_at[3])
       \/ DeadlineBasedRaises(context, read_at[4])
    THEN <<<<>>, <<>>, <<>>, <<>>>>
    ELSE <<PatternBasedTasks(context, read_at[1]), CalendarBasedTasks(context),
           GoalBasedTasks(context, read_at[3]),
           DeadlineBasedTasks(context, read_at[4])>>

\* The result lists of the four generators in call order.
GeneratePredictions(context, read_at) ==
    <<PatternBasedPrediction(context, read_at[1]),
      CalendarBasedPrediction(context),
      GoalBasedPrediction(context, read_at[3]),
      DeadlineBasedPrediction(context, read_at[4])>>

\* What asyncio.gather (lines 79-84) returns once its four awaitables have
\* finished in the order finished: the results in the order of the
\* awaitables in the call.
GatherResults(context, read_at, finished) ==
    GeneratePredictions(context, read_at)

(***************************************************************************)
(* _combine_predictions: concatenate, then keep the first candidate of     *)
(* every title.lower().strip().                                            *)
(***************************************************************************)
Lower(text) == [i \in 1..Len(text) |-> [text[i] EXCEPT !.cased = FALSE]]

RECURSIVE LStrip(_)
LStrip(text) ==
    IF text /= <<>> /\ Head(text) = SP THEN LStrip(Tail(text)) ELSE text

RECURSIVE RStrip(_)
RStrip(text) ==
    IF text /= <<>> /\ text[Len(text)] = SP
    THEN RStrip(SubSeq(text, 1, Len(text) - 1)) ELSE text

Strip(text) == RStrip(LStrip(text))

TitleKey(pred) == Strip(Lower(pred.title))

RECURSIVE UniquePredictions(_, _)
UniquePredictions(combined, seen_titles) ==
    IF combined = <<>> THEN <<>>
    ELSE LET title_key == TitleKey(Head(combined)) IN
         IF title_key \notin seen_titles
         THEN <<Head(combined)>>
              \o UniquePredictions(Tail(combined), seen_titles \cup {title_key})
         ELSE UniquePredictions(Tail(combined), seen_titles)

\* Deduplication on the title as written, without lower() and strip().
CombinePredictionsExactTitle(predictions_list) ==
    LET combined == Flatten(predictions_list)
        keep == SelectSeq([i \in 1..Len(combined) |-> i],
                    LAMBDA i : \A j \in 1..(i - 1) :
                                  combined[j].title /= combined[i].title)
    IN [i \in 1..Len(keep) |-> combined[keep[i]]]

CombinePredictions(predictions_list) ==
    UniquePredictions(Flatten(predictions_list), {})

(***************************************************************************)
(* _rank_by_importance.  The weights and the bonus are in hundredths, the  *)
(* importance_score is the float lines 497-528 compute: the four terms     *)
(* added from left to right to 0.0, so two candidates whose decimal scores *)
(* are equal can differ in the last place (0.75 * 0.4 is                   *)
(* 0.30000000000000004, 0.7 * 0.4 is 0.27999999999999997), and sorted()    *)
(* (line 533) orders them by that difference.                              *)
(***************************************************************************)
PriorityWeight(priority) ==
    CASE priority = "low" -> 20
      [] priority = "medium" -> 50
      [] priority = "high" -> 80
      [] priority = "critical" -> 100
      [] OTHER -> 50

SourceWeight(source) ==
    CASE source = PredictionSource.DEADLINE_BASED -> 90
      [] source = PredictionSource.CALENDAR_BASED -> 80
      [] source = PredictionSource.PATTERN_BASED -> 70
      [] source = PredictionSource.GOAL_BASED -> 60
      [] source = PredictionSource.AI_GENERATED -> 50
      [] OTHER -> 50

UrgencyBonus(due_date, rank_time) ==
    IF due_date = NoTime THEN 0
    ELSE LET days_until_due == DaysBetween(due_date, rank_time) IN
         IF days_until_due <= 1 THEN 30
         ELSE IF days_until_due <= 3 THEN 20
         ELSE IF days_until_due <= 7 THEN 10
         ELSE 0

ImportanceScore(pred, rank_time) ==
    LET confidence_term == FAdd(FZero, FMul(F(pred.confidence), F(40)))
        priority_term ==
            FAdd(confidence_term, FMul(F(PriorityWeight(pred.priority)), F(30)))
        urgency == UrgencyBonus(pred.due_date, rank_time)
        urgency_term ==
            IF urgency = 0 THEN priority_term ELSE FAdd(priority_term, F(urgency))
        source_term ==
            FAdd(urgency_term, FMul(F(SourceWeight(pred.source)), F(20)))
    IN FMin(FInt(1), source_term)

RankByImportance(predictions, rank_time) ==
    LET scored == [i \in 1..Len(predictions) |->
                      [predictions[i] EXCEPT
                          !.importance_score = ImportanceScore(predictions[i], rank_time)]]
        sorted == StableSortDesc([i \in 1..Len(scored) |->
                      [k |-> scored[i].importance_score, v |-> scored[i]]])
    IN [i \in 1..Len(sorted) |-> sorted[i].v]

(***************************************************************************)
(* The auto-creation gate of generate_predictive_tasks (lines 92-93) and   *)
(* _auto_create_task.                                                      *)
(***************************************************************************)
TopN == 3

AutoCreateGate == 85

SuggestedN == 10

\* ranked_tasks[:3]
TopRanked(ranked_tasks) == SliceTo(ranked_tasks, TopN)

AutoCreates(task) == task.confidence > AutoCreateGate

\* The Task row _auto_create_task adds to the store; created_at is the
\* column default, datetime.utcnow called when the row is inserted
\* (models.py line 40).
AutoTaskRow(uid, prediction, commit_time) ==
    [user_id |-> uid, title |-> prediction.title, status |-> "pending",
     priority |-> prediction.priority, due |-> prediction.due_date,
     estimated_pomodoros |-> Max2(1, prediction.estimated_duration \div 25),
     created_at |-> commit_time]

\* The dict _auto_create_task returns; rank is the position of the
\* prediction in ranked_tasks (bookkeeping of the model).
CreatedTask(prediction, rank) ==
    [title |-> prediction.title, confidence |-> prediction.confidence,
     source |-> prediction.source, auto_created |-> TRUE, rank |-> rank]

\* The dict generate_predictive_tasks returns (lines 109-117).
PredictionResult(auto_created, ranked_tasks) ==
    [auto_created_tasks |-> auto_created,
     suggested_tasks |-> SliceTo(ranked_tasks, SuggestedN),
     total_predictions |-> Len(ranked_tasks),
     high_confidence_count |->
        Cardinality({i \in 1..Len(ranked_tasks) : ranked_tasks[i].confidence > 80}),
     sources_used |-> {ranked_tasks[i].source : i \in 1..Len(ranked_tasks)}]

\* The dict optimize_schedule returns: the cached dict (the suggestions as
\* objects instead of asdict) and the total gain once more.
ScheduleReturnValue(results) ==
    [executed_optimizations |-> results.executed_optimizations,
     suggested_optimizations |-> results.suggested_optimizations,
     impact_summary |-> results.impact_summary,
     productivity_gain_estimate |-> results.impact_summary.total_productivity_gain]

(***************************************************************************)
(* State.                                                                  *)
(*                                                                         *)
(* One behaviour is one run: one call of optimize_schedule or of           *)
(* generate_predictive_tasks for one user.  Under SpecCache a behaviour    *)
(* is several calls on one event loop, a call starting wherever the call   *)
(* that is running awaits or has ended; under SpecRerun each call starts   *)
(* after the call before it has returned.                                  *)
(*  feature, now, date_range  the call: which method, when, its argument   *)
(*  user_id                   the call's user                              *)
(*  sessions, tasks           the historical store and the task store      *)
(*  redis, cache              self.redis (None or a client) and its keys   *)
(*  pc, pos                   position in the method; index of the loop    *)
(*  productivity_map .. executed_count   locals of optimize_schedule       *)
(*  context .. auto_created              locals of generate_predictive_tasks*)
(*  completion                the generators of asyncio.gather that have   *)
(*                            finished, in the order they finished, each   *)
(*                            with the time it read from the clock         *)
(*  clock                     the latest time a statement of the service   *)
(*                            has read from datetime.now(), the local time *)
(*                            of the host; the store reads the clock again *)
(*                            at each commit, as datetime.utcnow(), and    *)
(*                            keeps that time in the row's created_at      *)
(*  utc_shift                 datetime.utcnow() minus datetime.now() on    *)
(*                            the host, in minutes                         *)
(*  found                     the number of rows the task store held when  *)
(*                            the run was called                           *)
(*  frames                    one entry per call made so far: the locals   *)
(*                            of a call that is suspended in an await or   *)
(*                            has ended, Unset for the call that is        *)
(*                            running (its locals are the variables)       *)
(*  ready                     the callbacks queued on the event loop,      *)
(*                            first queued first, each with its call: the  *)
(*                            generator tasks of asyncio.gather ("tasks"), *)
(*                            the done-callback of the last of them, which *)
(*                            resolves the future of gather ("done"), and  *)
(*                            the wake-up of a call whose await is over    *)
(*                            ("wake")                                     *)
(*  result                    the value returned to the caller             *)
(*  db_errors                 the accesses of the store that raised, each  *)
(*                            as <<step of the method, loop index>>        *)
(*  cache_calls               the calls of redis.setex made so far, one    *)
(*                            per run that reached its cache write: the    *)
(*                            run, the key, the value, and whether the     *)
(*                            call is awaited, has written, or has raised  *)
(*  fetched                   what the last get_cached_predictions         *)
(*                            returned, and for which user                 *)
(*  in_flight                 the loop positions whose executor call       *)
(*                            (_execute_optimization, _auto_create_task)   *)
(*                            has been made and has not yet returned or    *)
(*                            raised; used where a call is two steps       *)
(***************************************************************************)
VARIABLES feature, now, date_range, sessions, tasks, redis, cache, pc, pos,
          productivity_map, current_schedule, optimizations,
          optimization_results, executed_count,
          context, predictions, completion, clock, ranked_tasks, auto_created,
          result, db_errors, user_id, cache_calls, fetched, in_flight,
          utc_shift, found, frames, ready

callVars == <<feature, now, date_range, sessions, redis, user_id, cache_calls, fetched,
              in_flight, utc_shift, found, frames>>

\* callVars and the queue of the event loop.
loopVars == <<callVars, ready>>

schedVars == <<productivity_map, current_schedule, optimizations,
               optimization_results, executed_count>>

predVars == <<context, predictions, completion, clock, ranked_tasks, auto_created>>

\* The locals of generate_predictive_tasks.
predLocals == <<context, predictions, completion, ranked_tasks, auto_created>>

vars == <<feature, now, date_range, sessions, tasks, redis, cache, pc, pos,
          productivity_map, current_schedule, optimizations,
          optimization_results, executed_count,
          context, predictions, completion, clock, ranked_tasks, auto_created,
          result, db_errors, user_id, cache_calls, fetched, in_flight,
          utc_shift, found, frames, ready>>

\* A local not yet assigned.
Unset == [unset |-> TRUE]

Schedule == "schedule_optimization"

Predict == "task_prediction"

(***************************************************************************)
(* The stores at the start of a run.                                       *)
(***************************************************************************)
\* The day of the run of the scheduling feature: a Monday, 09:00.
BaseDay == 2 * 7

\* The rows the stores hold at the start are rows of user "1".
SessionKinds ==
    <<[user_id |-> "1", hour |-> 10, focus_score |-> 90, interrupted |-> FALSE],
      [user_id |-> "1", hour |-> 11, focus_score |-> 90, interrupted |-> FALSE],
      [user_id |-> "1", hour |-> 12, focus_score |-> 90, interrupted |-> TRUE],
      [user_id |-> "1", hour |-> 14, focus_score |-> 30, interrupted |-> TRUE]>>

TaskKinds(t) ==
    <<[user_id |-> "1",
       title |-> Text("write report"), status |-> "pending", priority |-> "medium",
       due |-> At(DateOf(t), 12), estimated_pomodoros |-> 2,
       created_at |-> t - DaysDelta(5)],
      [user_id |-> "1",
       title |-> Text("review pr"), status |-> "in_progress", priority |-> "medium",
       due |-> At(DateOf(t), 13), estimated_pomodoros |-> 1,
       created_at |-> t - DaysDelta(1)],
      [user_id |-> "1",
       title |-> Text("legacy import"), status |-> "pending", priority |-> "low",
       due |-> At(DateOf(t), 16), estimated_pomodoros |-> NoInt,
       created_at |-> t - DaysDelta(10)]>>

\* Task.user_id == user_id, PomodoroSession.user_id == user_id: the rows of
\* a table that belong to the user.
OfUser(rows, uid) == SelectSeq(rows, LAMBDA row : row.user_id = uid)

\* datetime.utcnow() minus datetime.now(), in minutes, on a host nine hours
\* east of UTC, on a host on UTC and on a host four hours west of it.
UtcShifts == {0 - 540, 0, 240}

\* The rows of a table, up to their order: non-decreasing index sequences.
Multisets(n, max) ==
    {s \in SeqsUpTo(1..n, max) : \A i \in 1..(Len(s) - 1) : s[i] <= s[i + 1]}

SessionTables ==
    {[i \in 1..Len(s) |-> SessionKinds[s[i]]] :
        s \in Multisets(Len(SessionKinds), MaxSessions)}

TaskTables(t) ==
    {[i \in 1..Len(s) |-> TaskKinds(t)[s[i]]] :
        s \in Multisets(Len(TaskKinds(t)), MaxTasks)}

PredictNows == {At(BaseDay, 9), At(BaseDay + 2, 11), At(BaseDay + 4, 14)}

Users == {"1", "2"}

\* One key per feature, shared by all users.
CacheKeyOfFeature(prefix, uid) == <<prefix, "1">>

\* f"schedule_optimizations:{user_id}" and f"predictions:{user_id}".
CacheKey(prefix, uid) == <<prefix, uid>>

CacheKeys == {CacheKey(prefix, uid) :
                 prefix \in {"schedule_optimizations", "predictions"}, uid \in Users}

\* A cache key holds <<>> until it is written, then <<value>>.
EmptyCache == [key \in CacheKeys |-> <<>>]

\* A single run is a run of user "1" on a store that awaits no write.
InitCalls ==
    /\ user_id = "1"
    /\ cache_calls = <<>>
    /\ fetched = Unset
    /\ in_flight = {}
    /\ found = Len(tasks)
    /\ frames = <<Unset>>
    \* A call that is inside asyncio.gather has its callback queued.
    /\ ready = IF pc = "generate" THEN <<[run |-> 1, kind |-> "tasks"]>>
               ELSE IF pc = "rank" THEN <<[run |-> 1, kind |-> "wake"]>>
               ELSE <<>>

InitLocals ==
    /\ pc = "start"
    /\ pos = 0
    /\ cache = EmptyCache
    /\ productivity_map = Unset
    /\ current_schedule = <<>>
    /\ optimizations = <<>>
    /\ optimization_results = <<>>
    /\ executed_count = 0
    /\ context = Unset
    /\ predictions = <<>>
    /\ completion = <<>>
    /\ clock = now
    /\ ranked_tasks = <<>>
    /\ auto_created = <<>>
    /\ result = Unset
    /\ db_errors = {}
    /\ InitCalls

\* optimize_schedule is called on a host four hours west of UTC.
InitSchedule ==
    /\ feature = Schedule
    /\ now = At(BaseDay, 9)
    /\ \E n \in 0..(MaxDays - 1) : date_range = <<now, now + DaysDelta(n)>>
    /\ sessions \in SessionTables
    /\ tasks \in TaskTables(now)
    /\ redis \in {None, "client"}
    /\ utc_shift = 240
    /\ InitLocals

\* generate_predictive_tasks is called on any of the hosts.
InitPredict ==
    /\ feature = Predict
    /\ now \in PredictNows
    /\ date_range = <<now, now>>
    /\ sessions = <<>>
    /\ tasks \in TaskTables(now)
    /\ redis \in {None, "client"}
    /\ utc_shift \in UtcShifts
    /\ InitLocals

Init == InitSchedule \/ InitPredict

(***************************************************************************)
(* optimize_schedule.                                                      *)
(***************************************************************************)
\* The call that is running: the entry of frames that holds no locals.
Run == CHOOSE i \in 1..Len(frames) : frames[i] = Unset

\* The time of the first call of the behaviour.
FirstCall == IF frames[1] = Unset THEN now ELSE frames[1].now

\* The latest time a read of the clock can return.
Horizon == Max2(clock, FirstCall + ClockStep)

\* The sequences of n reads of the clock, each no earlier than the one
\* before it, within lo..hi.
RECURSIVE ReadsFrom(_, _, _)
ReadsFrom(n, lo, hi) ==
    IF n = 0 THEN {<<>>}
    ELSE UNION {{<<t>> \o rest : rest \in ReadsFrom(n - 1, t, hi)} : t \in lo..hi}

\* Line 84, the store answers: the pattern is computed from the sessions
\* of the user since the time read at line 146.
PatternsComputed ==
    /\ feature = Schedule /\ pc = "start"
    /\ productivity_map' = GetProductivityPatterns(TRUE, OfUser(sessions, user_id))
    /\ clock' \in clock..Horizon
    /\ pc' = "schedule"
    /\ UNCHANGED <<loopVars, tasks, cache, pos, current_schedule, optimizations,
                   optimization_results, executed_count, predLocals, result,
                   db_errors>>

\* Line 84, the store fails, before the read of line 146 or after it: the
\* except branch returns the default pattern.
PatternsDefault ==
    /\ feature = Schedule /\ pc = "start"
    /\ productivity_map' = GetProductivityPatterns(FALSE, OfUser(sessions, user_id))
    /\ clock' \in clock..Horizon
    /\ pc' = "schedule"
    /\ UNCHANGED <<loopVars, tasks, cache, pos, current_schedule, optimizations,
                   optimization_results, executed_count, predLocals, result>>
    /\ db_errors' = db_errors \cup {<<"patterns", 0>>}

\* Line 87: the current schedule, with the store answering or failing.
GetSchedule ==
    /\ feature = Schedule /\ pc = "schedule"
    /\ \E db_ok \in BOOLEAN :
          /\ current_schedule' =
                GetCurrentSchedule(db_ok, OfUser(tasks, user_id), date_range)
          /\ db_errors' = IF db_ok THEN db_errors
                          ELSE db_errors \cup {<<"schedule", 0>>}
    /\ pc' = "identify"
    /\ UNCHANGED <<loopVars, tasks, cache, pos, productivity_map, optimizations,
                   optimization_results, executed_count, predVars, result>>

\* Line 90 is reached: the pattern and the schedule are there.
IdentifyNext == feature = Schedule /\ pc = "identify"

\* Lines 90-96: the ranked opportunities; the loop starts at the first one.
\* The clock is read once for every focus opportunity (line 485).
Identify ==
    /\ IdentifyNext
    /\ \E reads \in ReadsFrom(Len(FreeFocusBlocks(current_schedule, productivity_map)),
                              clock, Horizon) :
          /\ optimizations' =
                IdentifyOptimizationOpportunities(current_schedule, productivity_map,
                                                  reads)
          /\ clock' = IF reads = <<>> THEN clock ELSE reads[Len(reads)]
    /\ optimization_results' = <<>>
    /\ executed_count' = 0
    /\ pos' = 1
    /\ pc' = "execute"
    /\ UNCHANGED <<loopVars, tasks, cache, productivity_map, current_schedule,
                   predLocals, result, db_errors>>

\* The ways a call that writes a task row ends (_create_focus_block lines
\* 595-624, _auto_create_task lines 552-585): db.add, db.commit and
\* db.refresh all succeed and the call returns; the store raises before the
\* commit; or it raises after it (in db.refresh or on leaving
\* `async with get_db()`), with the row already in the table.
StoreOutcomes == {"returns", "raises", "raises_after_commit"}

RowCommitted(outcome) == outcome /= "raises"

\* The latest time read from the clock so far, in local time: by a
\* statement of the service, or by the store for the created_at of a row.
LatestRead ==
    LET read == {clock} \cup {tasks[k].created_at - utc_shift : k \in 1..Len(tasks)}
    IN CHOOSE t \in read : \A u \in read : u <= t

\* The times db.commit() can stamp on a row: created_at's default,
\* datetime.utcnow, is called when the row is inserted, no earlier than the
\* latest read so far, and returns the time in UTC.
CommitTimes ==
    {t + utc_shift : t \in LatestRead..Max2(LatestRead, FirstCall + ClockStep)}

\* Lines 98-105, one iteration whose opportunity passes the gate.
ExecuteOpportunity ==
    /\ feature = Schedule /\ pc = "execute"
    /\ pos <= Len(optimizations)
    /\ Selected(optimizations[pos], executed_count)
    /\ \E outcome \in (IF UsesTaskStore(optimizations[pos])
                        THEN StoreOutcomes ELSE {"returns"}) :
          /\ optimization_results' =
                Append(optimization_results,
                       [ExecuteOptimization(optimizations[pos], outcome = "returns")
                           EXCEPT !.cand = pos])
          /\ IF UsesTaskStore(optimizations[pos]) /\ RowCommitted(outcome)
             THEN \E commit_time \in CommitTimes :
                     tasks' = Append(tasks, FocusTaskRow(user_id, optimizations[pos],
                                                         commit_time))
             ELSE tasks' = tasks
          /\ db_errors' = IF outcome = "returns" THEN db_errors
                          ELSE db_errors \cup {<<"execute", pos>>}
    /\ executed_count' = executed_count + 1
    /\ pos' = pos + 1
    /\ UNCHANGED <<loopVars, cache, pc, productivity_map, current_schedule,
                   optimizations, predVars, result>>

\* Lines 98-101, one iteration whose opportunity does not pass the gate.
SkipOpportunity ==
    /\ feature = Schedule /\ pc = "execute"
    /\ pos <= Len(optimizations)
    /\ ~Selected(optimizations[pos], executed_count)
    /\ pos' = pos + 1
    /\ UNCHANGED <<loopVars, tasks, cache, pc, schedVars, predVars, result, db_errors>>

\* The cache after redis.setex(key, 3600, value): the key holds the value
\* when there is a client and the call wrote, else the cache is as before.
CacheAfterWrite(key, value, written) ==
    IF redis /= None /\ written THEN [cache EXCEPT ![key] = <<value>>] ELSE cache

runVars == <<feature, now, date_range, sessions, redis, user_id, in_flight,
             utc_shift, found, frames>>

\* A callback of a call, as the event loop queues it.
Queued(run, kind) == [run |-> run, kind |-> kind]

\* The event loop's next callback is this one of the running call.
Due(kind) == ready /= <<>> /\ Head(ready) = Queued(Run, kind)

\* The running call has handed control to the event loop: it is suspended
\* in asyncio.gather, before the first generator task has run (the four
\* tasks run one after the other, none of them awaits) or after the last
\* has finished; it awaits redis.setex; or it has ended.
AtSuspension ==
    \/ pc = "generate" /\ completion = <<>>
    \/ pc \in {"rank", "caching", "done", "raised"}

\* One call of redis.setex: the run that makes it, its key and value, the
\* value the run returns once the call is over, and its state: "awaiting",
\* "written" or "failed".
CacheCall(run, uid, f, key, value, returns) ==
    [run |-> run, user_id |-> uid, feature |-> f, key |-> key, value |-> value,
     returns |-> returns, status |-> "awaiting"]

\* The call of redis.setex the running call has made, 0 when it made none.
OwnCall ==
    LET calls == {i \in 1..Len(cache_calls) : cache_calls[i].run = Run}
    IN IF calls = {} THEN 0 ELSE CHOOSE i \in calls : TRUE

\* Line 113 is reached: the loop of lines 98-111 is over.
LoopOver == feature = Schedule /\ pc = "execute" /\ pos > Len(optimizations)

\* The call of redis.setex the run awaits is over: it wrote or it raised.
CacheCallOver ==
    pc = "caching" /\ cache_calls[OwnCall].status /= "awaiting"

\* optimize_schedule, line 116: the call of _cache_optimization_results
\* awaits redis.setex (line 670).
ScheduleCacheCall ==
    /\ LoopOver
    /\ redis /= None
    /\ LET results == ScheduleResults(optimization_results, optimizations, executed_count)
       IN cache_calls' =
             Append(cache_calls,
                    CacheCall(Run, user_id, feature,
                              CacheKey("schedule_optimizations", user_id),
                              results, ScheduleReturnValue(results)))
    /\ pc' = "caching"
    /\ UNCHANGED <<runVars, ready, fetched, tasks, cache, pos, schedVars, predVars,
                   result, db_errors>>

\* redis.setex of call i writes its key or raises (caught, lines 676 and
\* 716); the run that awaits it has not returned yet.
CacheWrite(i) ==
    /\ i \in 1..Len(cache_calls)
    /\ cache_calls[i].status = "awaiting"
    /\ \E written \in BOOLEAN :
          /\ cache' = CacheAfterWrite(cache_calls[i].key, cache_calls[i].value, written)
          /\ cache_calls' =
                [cache_calls EXCEPT
                    ![i].status = IF written THEN "written" ELSE "failed"]
    \* The wake-up of the call that awaits it is queued.
    /\ ready' = Append(ready, Queued(cache_calls[i].run, "wake"))
    /\ UNCHANGED <<runVars, fetched, tasks, pc, pos, schedVars, predVars, result,
                   db_errors>>

\* Lines 127-133: the return, once _cache_optimization_results is over: at
\* once when there is no client (line 668), else after redis.setex wrote
\* or raised.
ScheduleReturn ==
    /\ feature = Schedule
    /\ \/ LoopOver /\ redis = None /\ UNCHANGED ready
       \/ CacheCallOver /\ Due("wake") /\ ready' = Tail(ready)
    /\ result' = ScheduleReturnValue(
                     ScheduleResults(optimization_results, optimizations, executed_count))
    /\ pc' = "done"
    /\ UNCHANGED <<callVars, tasks, cache, pos, schedVars, predVars, db_errors>>

NextSchedule ==
    \/ PatternsComputed
    \/ PatternsDefault
    \/ GetSchedule
    \/ Identify
    \/ ExecuteOpportunity
    \/ SkipOpportunity
    \/ ScheduleCacheCall
    \/ \E i \in 1..MaxRuns : CacheWrite(i)
    \/ ScheduleReturn

(***************************************************************************)
(* generate_predictive_tasks.                                              *)
(***************************************************************************)
\* Line 76, the store answers: the context is built from the rows of the
\* user and from the times read at GatherReadLines.
GatherContext ==
    /\ feature = Predict /\ pc = "start"
    /\ \E reads \in ReadsFrom(Len(GatherReadLines), clock, Horizon) :
          /\ context' = GatherPredictionContext(OfUser(tasks, user_id), reads)
          /\ clock' = reads[Len(reads)]
    /\ pc' = "generate"
    \* asyncio.gather queues the four generator tasks (line 79).
    /\ ready' = Append(ready, Queued(Run, "tasks"))
    /\ UNCHANGED <<callVars, tasks, cache, pos, schedVars, predictions, completion,
                   ranked_tasks, auto_created, result, db_errors>>

\* Line 76, the store fails, before the read of line 135 or after it:
\* _gather_prediction_context re-raises and so does
\* generate_predictive_tasks (lines 119-121).
GatherContextRaises ==
    /\ feature = Predict /\ pc = "start"
    /\ clock' \in clock..Horizon
    /\ pc' = "raised"
    /\ UNCHANGED <<loopVars, tasks, cache, pos, schedVars, predLocals, result>>
    /\ db_errors' = db_errors \cup {<<"gather", 0>>}

\* The generators that have finished, in the order they finished.
Finished(ended) == [i \in 1..Len(ended) |-> ended[i].generator]

\* The time each finished generator read from the clock.
ReadAt(ended) ==
    [g \in Range(Finished(ended)) |->
        ended[CHOOSE i \in 1..Len(ended) : ended[i].generator = g].read_at]

\* Lines 79-84: asyncio.gather runs the four generators as tasks of the
\* event loop and suspends until all have finished.  Generator g runs and
\* finishes; none of the four awaits, so the time it reads (lines 179, 328,
\* 402; the calendar generator reads none) is read when it finishes: no
\* earlier than the reads before it and no later than Horizon.  gather
\* returns when the fourth has finished.
CompleteGenerator(g) ==
    /\ feature = Predict /\ pc = "generate"
    /\ Due("tasks")
    /\ g \notin Range(Finished(completion))
    /\ \E t \in (IF g = 2 THEN {now} ELSE clock..Horizon) :
          /\ completion' = Append(completion, [generator |-> g, read_at |-> t])
          /\ clock' = Max2(clock, t)
    /\ IF Len(completion) = 3
       THEN /\ predictions' =
                  GatherResults(context, ReadAt(completion'), Finished(completion'))
            /\ pc' = "rank"
            \* The done-callback of the task is queued behind what is
            \* queued.
            /\ ready' = Append(Tail(ready), Queued(Run, "done"))
       ELSE UNCHANGED <<predictions, pc, ready>>
    /\ UNCHANGED <<callVars, tasks, cache, pos, schedVars, context,
                   ranked_tasks, auto_created, result, db_errors>>

\* The event loop runs the tasks in the order gather created them (lines
\* 80-83): pattern, calendar, goal, deadline.
RunGenerator == CompleteGenerator(Len(completion) + 1)

\* Line 79, the event loop runs the done-callback of the last generator
\* task of a call: the future of asyncio.gather gets its result and the
\* wake-up of the call that awaits it is queued behind what has been queued
\* since the task ended.
GatherReturns ==
    /\ AtSuspension
    /\ ready /= <<>>
    /\ Head(ready).kind = "done"
    /\ ready' = Append(Tail(ready), Queued(Head(ready).run, "wake"))
    /\ UNCHANGED <<callVars, tasks, cache, pc, pos, schedVars, predVars, result,
                   db_errors>>

\* Lines 87-91: combine, rank; the loop starts at the first ranked task.
\* _rank_by_importance reads the clock (line 511) no earlier than the
\* generators did and no later than Horizon.
Rank ==
    /\ feature = Predict /\ pc = "rank"
    /\ Due("wake")
    /\ ready' = Tail(ready)
    /\ \E rank_time \in clock..Horizon :
          /\ ranked_tasks' = RankByImportance(CombinePredictions(predictions), rank_time)
          /\ clock' = rank_time
    /\ auto_created' = <<>>
    /\ pos' = 1
    /\ pc' = "create"
    /\ UNCHANGED <<callVars, tasks, cache, schedVars, context, predictions, completion,
                   result, db_errors>>

\* Lines 92-95, one iteration: the task store takes the row.
\* The iteration with the creation guarded by the task store: no row is
\* written when the store already holds a row of that title.
AutoCreateTaskOnce ==
    /\ feature = Predict /\ pc = "create"
    /\ pos <= Len(TopRanked(ranked_tasks))
    /\ AutoCreates(ranked_tasks[pos])
    /\ IF \E k \in 1..Len(tasks) : tasks[k].title = ranked_tasks[pos].title
       THEN tasks' = tasks
       ELSE \E commit_time \in CommitTimes :
               tasks' = Append(tasks, AutoTaskRow(user_id, ranked_tasks[pos], commit_time))
    /\ auto_created' = Append(auto_created, CreatedTask(ranked_tasks[pos], pos))
    /\ pos' = pos + 1
    /\ UNCHANGED <<loopVars, cache, pc, schedVars, context, predictions, completion,
                   clock, ranked_tasks, result, db_errors>>

AutoCreateTask ==
    /\ feature = Predict /\ pc = "create"
    /\ pos <= Len(TopRanked(ranked_tasks))
    /\ AutoCreates(ranked_tasks[pos])
    /\ \E commit_time \in CommitTimes :
          tasks' = Append(tasks, AutoTaskRow(user_id, ranked_tasks[pos], commit_time))
    /\ auto_created' = Append(auto_created, CreatedTask(ranked_tasks[pos], pos))
    /\ pos' = pos + 1
    /\ UNCHANGED <<loopVars, cache, pc, schedVars, context, predictions, completion,
                   clock, ranked_tasks, result, db_errors>>

\* The failing iteration with the rows of the run taken back.
AutoCreateTaskRaisesRolledBack ==
    /\ feature = Predict /\ pc = "create"
    /\ pos <= Len(TopRanked(ranked_tasks))
    /\ AutoCreates(ranked_tasks[pos])
    /\ pc' = "raised"
    /\ tasks' = SubSeq(tasks, 1, Len(tasks) - Len(auto_created))
    /\ UNCHANGED <<loopVars, cache, pos, schedVars, predVars, result>>
    /\ db_errors' = db_errors \cup {<<"create", pos>>}

\* Lines 92-94, one iteration: the task store fails, before the commit or
\* after it; _auto_create_task re-raises (line 585) and so does
\* generate_predictive_tasks.
AutoCreateTaskRaises ==
    /\ feature = Predict /\ pc = "create"
    /\ pos <= Len(TopRanked(ranked_tasks))
    /\ AutoCreates(ranked_tasks[pos])
    /\ \E outcome \in StoreOutcomes \ {"returns"} :
          IF RowCommitted(outcome)
          THEN \E commit_time \in CommitTimes :
                  tasks' = Append(tasks, AutoTaskRow(user_id, ranked_tasks[pos], commit_time))
          ELSE tasks' = tasks
    /\ pc' = "raised"
    /\ UNCHANGED <<loopVars, cache, pos, schedVars, predVars, result>>
    /\ db_errors' = db_errors \cup {<<"create", pos>>}

\* Lines 92-93, one iteration: the confidence does not pass the gate.
SkipTask ==
    /\ feature = Predict /\ pc = "create"
    /\ pos <= Len(TopRanked(ranked_tasks))
    /\ ~AutoCreates(ranked_tasks[pos])
    /\ pos' = pos + 1
    /\ UNCHANGED <<loopVars, tasks, cache, pc, schedVars, predVars, result, db_errors>>

\* generate_predictive_tasks, line 105: the call of _cache_predictions
\* awaits redis.setex (line 710).
PredictCacheCall ==
    /\ feature = Predict /\ pc = "create"
    /\ pos > Len(TopRanked(ranked_tasks))
    /\ redis /= None
    /\ cache_calls' =
          Append(cache_calls,
                 CacheCall(Run, user_id, feature, CacheKey("predictions", user_id),
                           ranked_tasks,
                           PredictionResult(auto_created, ranked_tasks)))
    /\ pc' = "caching"
    /\ UNCHANGED <<runVars, ready, fetched, tasks, cache, pos, schedVars, predVars,
                   result, db_errors>>

\* Lines 107-117: the return, once _cache_predictions is over: at once
\* when there is no client (line 708), else after redis.setex wrote or
\* raised.
PredictReturn ==
    /\ feature = Predict
    /\ \/ /\ pc = "create" /\ pos > Len(TopRanked(ranked_tasks)) /\ redis = None
          /\ UNCHANGED ready
       \/ CacheCallOver /\ Due("wake") /\ ready' = Tail(ready)
    /\ result' = PredictionResult(auto_created, ranked_tasks)
    /\ pc' = "done"
    /\ UNCHANGED <<callVars, tasks, cache, pos, schedVars, predVars, db_errors>>

NextPredict ==
    \/ GatherContext
    \/ GatherContextRaises
    \/ RunGenerator
    \/ GatherReturns
    \/ Rank
    \/ AutoCreateTask
    \/ AutoCreateTaskRaises
    \/ SkipTask
    \/ PredictCacheCall
    \/ \E i \in 1..MaxRuns : CacheWrite(i)
    \/ PredictReturn

Next == NextSchedule \/ NextPredict

Spec == Init /\ [][Next]_vars

(***************************************************************************)
(* The selection loop of optimize_schedule on any ranked list              *)
(* (lines 95-133): the list _identify_optimization_opportunities returned  *)
(* is drawn from the candidates below, in any order the sort by impact     *)
(* leaves them in.  The first four are the candidates of the four          *)
(* generators; the others carry values at and around the two gates.        *)
(***************************************************************************)
CandidateKinds ==
    <<ScheduleOptimization(OptimizationType.BLOCK_FOCUS_TIME,
          Prefixed("block focus time", Text("10:00-12:00")), 90, 80,
          NoTime, At(BaseDay, 10), 120),
      ScheduleOptimization(OptimizationType.RESCHEDULE_LOW_ENERGY_TASKS,
          Prefixed("reschedule", Text("deep work session")), 85, 70,
          At(BaseDay, 14), At(BaseDay, 10), NoInt),
      ScheduleOptimization(OptimizationType.MOVE_MEETING_FROM_PEAK_FOCUS,
          Prefixed("reschedule", Text("client lunch meeting")), 80, 60,
          At(BaseDay, 12), At(BaseDay, 9), NoInt),
      ScheduleOptimization(OptimizationType.CONSOLIDATE_MEETINGS,
          Prefixed("consolidate meetings on", Text("monday")), 70, 50,
          NoTime, NoTime, NoInt),
      ScheduleOptimization(OptimizationType.ADD_BUFFER_TIME,
          Text("add buffer"), 90, 50, NoTime, NoTime, NoInt),
      ScheduleOptimization(OptimizationType.OPTIMIZE_CONTEXT_SWITCHING,
          Text("batch reviews"), 50, 90, NoTime, NoTime, NoInt),
      ScheduleOptimization(OptimizationType.ADD_BUFFER_TIME,
          Text("buffer before review"), 80, 70, NoTime, NoTime, NoInt),
      ScheduleOptimization(OptimizationType.OPTIMIZE_CONTEXT_SWITCHING,
          Text("batch email"), 90, 60, NoTime, NoTime, NoInt),
      ScheduleOptimization(OptimizationType.ADD_BUFFER_TIME,
          Text("buffer after standup"), 95, 90, NoTime, NoTime, NoInt)>>

\* The lists of n candidates that are sorted by impact, highest first.
RECURSIVE RankedListsOf(_)
RankedListsOf(n) ==
    IF n = 0 THEN {<<>>}
    ELSE {Append(r, CandidateKinds[k]) :
            <<r, k>> \in {rk \in RankedListsOf(n - 1) \X (1..Len(CandidateKinds)) :
                rk[1] = <<>> \/
                rk[1][Len(rk[1])].impact_score >= CandidateKinds[rk[2]].impact_score}}

RankedLists == UNION {RankedListsOf(n) : n \in 0..MaxRanked}

InitGate ==
    /\ feature = Schedule
    /\ now = At(BaseDay, 9)
    /\ date_range = <<now, now>>
    /\ sessions = <<>>
    /\ tasks = <<>>
    /\ redis = "client"
    /\ cache = EmptyCache
    /\ pc = "execute"
    /\ pos = 1
    /\ productivity_map = DefaultPattern
    /\ current_schedule = <<>>
    /\ optimizations \in RankedLists
    /\ optimization_results = <<>>
    /\ executed_count = 0
    /\ context = Unset
    /\ predictions = <<>>
    /\ completion = <<>>
    /\ clock = now
    /\ ranked_tasks = <<>>
    /\ auto_created = <<>>
    /\ result = Unset
    /\ db_errors = {}
    \* The host is four hours west of UTC.
    /\ utc_shift = 240
    /\ InitCalls

NextGate ==
    \/ ExecuteOpportunity
    \/ SkipOpportunity
    \/ ScheduleCacheCall
    \/ \E i \in 1..MaxRuns : CacheWrite(i)
    \/ ScheduleReturn

SpecGate == InitGate /\ [][NextGate]_vars

(***************************************************************************)
(* The four generators, _combine_predictions and _rank_by_importance on    *)
(* any context (lines 79-88): the context _gather_prediction_context       *)
(* builds, or the same with the last calendar event, goal or deadline      *)
(* lacking its title or the last project lacking its name.                 *)
(***************************************************************************)
WithoutKey(items, key) ==
    IF items = <<>> THEN items
    ELSE [items EXCEPT ![Len(items)] = [@ EXCEPT ![key] = NoKey]]

ContextInputs(gathered) ==
    {[gathered EXCEPT
        !.active_projects = IF m[1] THEN WithoutKey(@, "name") ELSE @,
        !.calendar_events = IF m[2] THEN WithoutKey(@, "title") ELSE @,
        !.current_goals = IF m[3] THEN WithoutKey(@, "title") ELSE @,
        !.upcoming_deadlines = IF m[4] THEN WithoutKey(@, "title") ELSE @] :
     m \in [1..4 -> BOOLEAN]}

InitGenerate ==
    /\ feature = Predict
    /\ now \in PredictNows
    /\ date_range = <<now, now>>
    /\ sessions = <<>>
    /\ tasks \in TaskTables(now)
    /\ redis = "client"
    /\ cache = EmptyCache
    /\ pc = "generate"
    /\ pos = 0
    /\ productivity_map = Unset
    /\ current_schedule = <<>>
    /\ optimizations = <<>>
    /\ optimization_results = <<>>
    /\ executed_count = 0
    /\ context \in ContextInputs(GatherPredictionContext(tasks, FrozenReads(now)))
    /\ predictions = <<>>
    /\ completion = <<>>
    /\ clock = now
    /\ ranked_tasks = <<>>
    /\ auto_created = <<>>
    /\ result = Unset
    /\ db_errors = {}
    /\ utc_shift \in UtcShifts
    /\ InitCalls

NextGenerate ==
    \/ RunGenerator
    \/ GatherReturns
    \/ Rank

SpecGenerate == InitGenerate /\ [][NextGenerate]_vars

(***************************************************************************)
(* _combine_predictions and _rank_by_importance on any generator outputs   *)
(* (lines 87-88): each generator returns a short list of candidates whose  *)
(* titles are one string written in three ways ("Review PR", "review pr",  *)
(* " Review PR ") or another string.  The pattern generator returns up to  *)
(* MaxGroup candidates, the other three up to one.                         *)
(***************************************************************************)
MaxGroup == 2

TitleInputs ==
    {Text("review pr"), <<Plain("review pr")>>, <<SP, Word("review pr"), SP>>,
     Text("plan week")}

GeneratorOutputs(source, confidence, n) ==
    UNION {[1..k -> {PredictedTask(t, 30, confidence, source, "medium", NoTime) :
                        t \in TitleInputs}] : k \in 0..n}

InitCombine ==
    /\ feature = Predict
    /\ now \in {At(BaseDay, 9)}
    /\ date_range = <<now, now>>
    /\ sessions = <<>>
    /\ tasks = <<>>
    /\ redis = "client"
    /\ cache = EmptyCache
    /\ pc = "rank"
    /\ pos = 0
    /\ productivity_map = Unset
    /\ current_schedule = <<>>
    /\ optimizations = <<>>
    /\ optimization_results = <<>>
    /\ executed_count = 0
    /\ context = GatherPredictionContext(tasks, FrozenReads(now))
    /\ \E pattern \in GeneratorOutputs(PredictionSource.PATTERN_BASED, 70, MaxGroup),
          calendar \in GeneratorOutputs(PredictionSource.CALENDAR_BASED, 80, 1),
          goal \in GeneratorOutputs(PredictionSource.GOAL_BASED, 75, 1),
          deadline \in GeneratorOutputs(PredictionSource.DEADLINE_BASED, 60, 1) :
          predictions = <<pattern, calendar, goal, deadline>>
    /\ completion = [g \in 1..4 |-> [generator |-> g, read_at |-> now]]
    /\ clock = now
    /\ ranked_tasks = <<>>
    /\ auto_created = <<>>
    /\ result = Unset
    /\ db_errors = {}
    /\ utc_shift \in UtcShifts
    /\ InitCalls

NextCombine == Rank

SpecCombine == InitCombine /\ [][NextCombine]_vars

(***************************************************************************)
(* _rank_by_importance on any candidate (line 88): one candidate of any    *)
(* confidence, priority (also one outside the table), source and due date  *)
(* (none, overdue, or 12 hours to 9 days ahead of the run).                *)
(***************************************************************************)
DueInputs(t) ==
    {NoTime, t - DaysDelta(2), t + HoursDelta(12), t + HoursDelta(36),
     t + DaysDelta(3) + HoursDelta(12), t + DaysDelta(7) + HoursDelta(12),
     t + DaysDelta(9)}

ScoreInputs(t) ==
    {PredictedTask(Text("review pr"), 30, confidence, source, priority, due) :
        confidence \in {50, 95},
        source \in {PredictionSource[k] : k \in DOMAIN PredictionSource},
        priority \in {"low", "medium", "high", "critical", "urgent"},
        due \in DueInputs(t)}

InitScore ==
    /\ feature = Predict
    /\ now \in {At(BaseDay, 9)}
    /\ date_range = <<now, now>>
    /\ sessions = <<>>
    /\ tasks = <<>>
    /\ redis = "client"
    /\ cache = EmptyCache
    /\ pc = "rank"
    /\ pos = 0
    /\ productivity_map = Unset
    /\ current_schedule = <<>>
    /\ optimizations = <<>>
    /\ optimization_results = <<>>
    /\ executed_count = 0
    /\ context = GatherPredictionContext(tasks, FrozenReads(now))
    /\ \E candidate \in ScoreInputs(now) :
          predictions = <<<<candidate>>, <<>>, <<>>, <<>>>>
    /\ completion = [g \in 1..4 |-> [generator |-> g, read_at |-> now]]
    /\ clock = now
    /\ ranked_tasks = <<>>
    /\ auto_created = <<>>
    /\ result = Unset
    /\ db_errors = {}
    /\ utc_shift \in UtcShifts
    /\ InitCalls

NextScore == Rank

SpecScore == InitScore /\ [][NextScore]_vars

(***************************************************************************)
(* _get_productivity_patterns on any history (line 84): up to MaxSessions  *)
(* sessions of the kinds below, with the store answering or failing.       *)
(* Hours 10 and 11 carry the focus scores 0.9 and 0.95, hours 12 and 13 a  *)
(* score of 0.8, hours 22 and 23 lie past the last two-hour window.        *)
(***************************************************************************)
FocusSessionKinds ==
    <<[user_id |-> "1", hour |-> 10, focus_score |-> 90, interrupted |-> FALSE],
      [user_id |-> "1", hour |-> 11, focus_score |-> 95, interrupted |-> FALSE],
      [user_id |-> "1", hour |-> 12, focus_score |-> 80, interrupted |-> TRUE],
      [user_id |-> "1", hour |-> 13, focus_score |-> 80, interrupted |-> FALSE],
      [user_id |-> "1", hour |-> 14, focus_score |-> 30, interrupted |-> TRUE],
      [user_id |-> "1", hour |-> 22, focus_score |-> 95, interrupted |-> TRUE],
      [user_id |-> "1", hour |-> 23, focus_score |-> 95, interrupted |-> FALSE]>>

InitPatterns ==
    /\ feature = Schedule
    /\ now = At(BaseDay, 9)
    /\ date_range = <<now, now>>
    /\ sessions \in {[i \in 1..Len(s) |-> FocusSessionKinds[s[i]]] :
                        s \in Multisets(Len(FocusSessionKinds), MaxSessions)}
    /\ tasks = <<>>
    /\ redis = "client"
    /\ utc_shift = 240
    /\ InitLocals

NextPatterns == PatternsComputed \/ PatternsDefault

SpecPatterns == InitPatterns /\ [][NextPatterns]_vars

(***************************************************************************)
(* Several calls on one event loop, one store and one cache (asyncio.gather*)
(* of line 79, cache writes of lines 666-677 and 706-717,                  *)
(* get_cached_predictions of lines 719-728).  database.get_db wraps a      *)
(* synchronous session, so a call hands control to the event loop only     *)
(* where it awaits asyncio.gather or a call of redis.  While a call is     *)
(* suspended there, or after it has ended, another call starts, for any    *)
(* user and feature, up to MaxRuns calls, or the event loop goes on with   *)
(* the suspended call whose callback it queued first: the generator tasks  *)
(* of asyncio.gather, the done-callback of the last of them and the        *)
(* wake-up that callback queues for the call that awaits them run in the   *)
(* order they were queued, the wake-up of a call that awaits redis is      *)
(* queued when redis has answered.  get_cached_predictions is called       *)
(* once, at any such moment, for the user of the call that handed over     *)
(* control.                                                                *)
(***************************************************************************)
InitCache ==
    /\ feature \in {Schedule, Predict}
    /\ now = At(BaseDay, 9)
    /\ date_range = <<now, now>>
    /\ sessions = <<SessionKinds[2], SessionKinds[3]>>
    /\ tasks = <<>>
    /\ redis = "client"
    \* The host is four hours west of UTC.
    /\ utc_shift = 240
    /\ InitLocals

\* The locals of the running call, and the clock as it leaves it.
Locals ==
    [feature |-> feature, user_id |-> user_id, now |-> now,
     date_range |-> date_range, found |-> found, pc |-> pc, pos |-> pos,
     productivity_map |-> productivity_map, current_schedule |-> current_schedule,
     optimizations |-> optimizations, optimization_results |-> optimization_results,
     executed_count |-> executed_count, context |-> context,
     predictions |-> predictions, completion |-> completion,
     ranked_tasks |-> ranked_tasks, auto_created |-> auto_created,
     result |-> result, db_errors |-> db_errors, in_flight |-> in_flight,
     clock |-> clock]

\* The locals of a call of feature f for user uid made at time t.
FreshLocals(f, uid, t) ==
    [feature |-> f, user_id |-> uid, now |-> t, date_range |-> <<t, t>>,
     found |-> Len(tasks), pc |-> "start", pos |-> 0,
     productivity_map |-> Unset, current_schedule |-> <<>>,
     optimizations |-> <<>>, optimization_results |-> <<>>,
     executed_count |-> 0, context |-> Unset, predictions |-> <<>>,
     completion |-> <<>>, ranked_tasks |-> <<>>, auto_created |-> <<>>,
     result |-> Unset, db_errors |-> {}, in_flight |-> {}, clock |-> t]

\* The event loop runs the call with these locals.
Restore(frame) ==
    /\ feature' = frame.feature
    /\ user_id' = frame.user_id
    /\ now' = frame.now
    /\ date_range' = frame.date_range
    /\ found' = frame.found
    /\ pc' = frame.pc
    /\ pos' = frame.pos
    /\ productivity_map' = frame.productivity_map
    /\ current_schedule' = frame.current_schedule
    /\ optimizations' = frame.optimizations
    /\ optimization_results' = frame.optimization_results
    /\ executed_count' = frame.executed_count
    /\ context' = frame.context
    /\ predictions' = frame.predictions
    /\ completion' = frame.completion
    /\ ranked_tasks' = frame.ranked_tasks
    /\ auto_created' = frame.auto_created
    /\ result' = frame.result
    /\ db_errors' = frame.db_errors
    /\ in_flight' = frame.in_flight

\* Another call is made, no earlier than the latest time read so far.
StartRun(f, uid) ==
    /\ AtSuspension
    /\ Len(frames) < MaxRuns
    /\ frames' = Append([frames EXCEPT ![Run] = Locals], Unset)
    /\ Restore(FreshLocals(f, uid, LatestRead))
    /\ clock' = LatestRead
    /\ UNCHANGED <<sessions, tasks, redis, cache, cache_calls, fetched, utc_shift,
                   ready>>

\* Call i is the next the event loop runs: the first callback in the queue
\* is its generator tasks, or its wake-up once asyncio.gather has returned
\* or the redis.setex it awaits has written or raised.
Resumable(i) ==
    /\ frames[i] /= Unset
    /\ ready /= <<>>
    /\ Head(ready).run = i
    /\ Head(ready).kind \in {"tasks", "wake"}

\* The event loop goes on with call i.
Resume(i) ==
    /\ AtSuspension
    /\ i \in 1..Len(frames)
    /\ Resumable(i)
    /\ frames' = [frames EXCEPT ![Run] = Locals, ![i] = Unset]
    /\ Restore(frames[i])
    /\ UNCHANGED <<sessions, tasks, redis, cache, cache_calls, fetched, utc_shift,
                   clock, ready>>

\* The value get_cached_predictions returns (lines 721-728): the list under
\* the user's key, or [] when there is no client, the key is absent or
\* redis.get raises.
CachedPredictions(uid, get_ok) ==
    IF redis /= None /\ get_ok /\ cache[CacheKey("predictions", uid)] /= <<>>
    THEN cache[CacheKey("predictions", uid)][1]
    ELSE <<>>

\* get_cached_predictions is called: without a client it returns [] (line
\* 721), else it awaits redis.get (line 723).
GetCachedPredictions(uid) ==
    /\ AtSuspension
    /\ fetched = Unset
    /\ fetched' = IF redis = None
                  THEN [user_id |-> uid, predictions |-> <<>>]
                  ELSE [user_id |-> uid, awaiting |-> TRUE]
    /\ UNCHANGED <<runVars, ready, cache_calls, tasks, cache, pc, pos, schedVars, predVars,
                   result, db_errors>>

\* redis.get answers or raises, and get_cached_predictions returns (lines
\* 723-728).
RedisGetReturns ==
    /\ AtSuspension
    /\ fetched /= Unset
    /\ "awaiting" \in DOMAIN fetched
    /\ \E get_ok \in BOOLEAN :
          fetched' = [user_id |-> fetched.user_id,
                      predictions |-> CachedPredictions(fetched.user_id, get_ok)]
    /\ UNCHANGED <<runVars, ready, cache_calls, tasks, cache, pc, pos, schedVars, predVars,
                   result, db_errors>>

NextCache ==
    \/ PatternsComputed
    \/ GetSchedule
    \/ Identify
    \/ ExecuteOpportunity
    \/ SkipOpportunity
    \/ ScheduleCacheCall
    \/ GatherContext
    \/ RunGenerator
    \/ GatherReturns
    \/ Rank
    \/ AutoCreateTask
    \/ SkipTask
    \/ PredictCacheCall
    \/ \E i \in 1..MaxRuns : CacheWrite(i)
    \/ ScheduleReturn
    \/ PredictReturn
    \/ \E f \in {Schedule, Predict}, uid \in Users : StartRun(f, uid)
    \/ \E i \in 1..MaxRuns : Resume(i)
    \/ GetCachedPredictions(user_id)
    \/ RedisGetReturns

SpecCache == InitCache /\ [][NextCache]_vars

(***************************************************************************)
(* The two selection loops with every executor call in two steps (lines    *)
(* 98-105 of optimize_schedule, 92-95 of generate_predictive_tasks): the   *)
(* call is made, and later it returns or raises.  The scheduling loop      *)
(* runs on any ranked list, the prediction loop on the list the pipeline   *)
(* ranks.                                                                  *)
(***************************************************************************)
\* The call is left running as a task of its own and the loop goes on.
LoopAfterCallDetached(p) ==
    [pc |-> IF feature = Schedule THEN "execute" ELSE "create", pos |-> p + 1]

\* Where the loop stands once the call of iteration p is made: suspended
\* in `await`, inside iteration p.
LoopAfterCall(p) == [pc |-> "executing", pos |-> p]

InitExecute == InitGate \/ InitPredict

\* Line 103: _execute_optimization is called for a selected opportunity.
BeginExecute ==
    /\ feature = Schedule /\ pc = "execute"
    /\ pos <= Len(optimizations)
    /\ Selected(optimizations[pos], executed_count)
    /\ in_flight' = in_flight \cup {pos}
    /\ pc' = LoopAfterCall(pos).pc
    /\ pos' = LoopAfterCall(pos).pos
    /\ UNCHANGED <<feature, now, date_range, sessions, redis, user_id, cache_calls,
                   utc_shift, found, frames, ready, fetched, tasks, cache, schedVars, predVars, result, db_errors>>

\* Lines 103-105: the call of iteration p returns its result dict (also
\* when the executor failed); the loop, if it awaits this call, goes on.
EndExecute(p) ==
    /\ feature = Schedule
    /\ p \in in_flight
    /\ \E outcome \in (IF UsesTaskStore(optimizations[p])
                        THEN StoreOutcomes ELSE {"returns"}) :
          /\ optimization_results' =
                Append(optimization_results,
                       [ExecuteOptimization(optimizations[p], outcome = "returns")
                           EXCEPT !.cand = p])
          /\ IF UsesTaskStore(optimizations[p]) /\ RowCommitted(outcome)
             THEN \E commit_time \in CommitTimes :
                     tasks' = Append(tasks, FocusTaskRow(user_id, optimizations[p],
                                                         commit_time))
             ELSE tasks' = tasks
          /\ db_errors' = IF outcome = "returns" THEN db_errors
                          ELSE db_errors \cup {<<"execute", p>>}
    /\ executed_count' = executed_count + 1
    /\ in_flight' = in_flight \ {p}
    /\ IF pc = "executing" /\ pos = p
       THEN pc' = "execute" /\ pos' = p + 1
       ELSE UNCHANGED <<pc, pos>>
    /\ UNCHANGED <<feature, now, date_range, sessions, redis, user_id, cache_calls,
                   utc_shift, found, frames, ready, fetched, cache, productivity_map, current_schedule,
                   optimizations, predVars, result>>

\* Line 94: _auto_create_task is called for a top-ranked task above the gate.
BeginCreate ==
    /\ feature = Predict /\ pc = "create"
    /\ pos <= Len(TopRanked(ranked_tasks))
    /\ AutoCreates(ranked_tasks[pos])
    /\ in_flight' = in_flight \cup {pos}
    /\ pc' = LoopAfterCall(pos).pc
    /\ pos' = LoopAfterCall(pos).pos
    /\ UNCHANGED <<feature, now, date_range, sessions, redis, user_id, cache_calls,
                   utc_shift, found, frames, ready, fetched, tasks, cache, schedVars, predVars, result, db_errors>>

\* Lines 94-95: the call of iteration p returns the created task, or the
\* store fails, before the commit or after it, and the exception leaves
\* generate_predictive_tasks.
EndCreate(p) ==
    /\ feature = Predict
    /\ p \in in_flight
    /\ pc /= "raised"
    /\ in_flight' = in_flight \ {p}
    /\ \E outcome \in StoreOutcomes :
          /\ IF RowCommitted(outcome)
             THEN \E commit_time \in CommitTimes :
                     tasks' = Append(tasks, AutoTaskRow(user_id, ranked_tasks[p], commit_time))
             ELSE tasks' = tasks
          /\ IF outcome = "returns"
             THEN /\ auto_created' = Append(auto_created, CreatedTask(ranked_tasks[p], p))
                  /\ IF pc = "executing" /\ pos = p
                     THEN pc' = "create" /\ pos' = p + 1
                     ELSE UNCHANGED <<pc, pos>>
                  /\ UNCHANGED db_errors
             ELSE /\ pc' = "raised"
                  /\ db_errors' = db_errors \cup {<<"create", p>>}
                  /\ UNCHANGED <<auto_created, pos>>
    /\ UNCHANGED <<feature, now, date_range, sessions, redis, user_id, cache_calls,
                   utc_shift, found, frames, ready, fetched, cache, schedVars, context, predictions, completion,
                   clock, ranked_tasks, result>>

NextExecute ==
    \/ BeginExecute
    \/ \E p \in 1..MaxRanked : EndExecute(p)
    \/ SkipOpportunity
    \/ ScheduleCacheCall
    \/ ScheduleReturn
    \/ GatherContext
    \/ RunGenerator
    \/ GatherReturns
    \/ Rank
    \/ BeginCreate
    \/ \E p \in 1..TopN : EndCreate(p)
    \/ SkipTask
    \/ PredictCacheCall
    \/ \E i \in 1..MaxRuns : CacheWrite(i)
    \/ PredictReturn

SpecExecute == InitExecute /\ [][NextExecute]_vars

(***************************************************************************)
(* Properties.                                                             *)
(***************************************************************************)
\* A scheduling candidate that passes both gates as the specification
\* states them: confidence above 0.8 and impact above 0.6.
Qualifies(o) == o.confidence > 80 /\ o.impact_score > 60

\* The rank positions of the qualifying candidates, in rank order.
QualifyingPositions(ranked) ==
    SelectSeq([i \in 1..Len(ranked) |-> i], LAMBDA i : Qualifies(ranked[i]))

\* The rank positions of the executed candidates, in order of execution.
ExecutedPositions(results) == [i \in 1..Len(results) |-> results[i].cand]

\* C1: in every run at most 5 optimizations are executed and at most 3
\* predicted tasks are auto-created, however many candidates qualify; the
\* returned executed_optimizations and auto_created_tasks obey the same
\* limits.
ExecutedWithinLimit ==
    /\ Len(optimization_results) <= 5
    /\ Len(auto_created) <= 3
    /\ (pc = "done" /\ feature = Schedule) =>
            Len(result.executed_optimizations) <= 5
    /\ (pc = "done" /\ feature = Predict) =>
            Len(result.auto_created_tasks) <= 3

\* A finished scheduling run with more than 5 qualifying candidates, of
\* which 5 were executed.
ExecutedAtLimit ==
    /\ pc = "done" /\ feature = Schedule
    /\ Len(QualifyingPositions(optimizations)) > 5
    /\ Len(result.executed_optimizations) = 5

\* C2: when optimize_schedule returns, the executed candidates are the
\* first min(5, n) of the n candidates with confidence > 0.8 and
\* impact > 0.6, in rank order; no candidate with confidence 0.9 and
\* impact 0.5 is among them.
ExecutedAreFirstQualifying ==
    pc = "done" =>
        LET q == QualifyingPositions(optimizations)
            executed == ExecutedPositions(result.executed_optimizations)
        IN /\ executed = SubSeq(q, 1, Min2(5, Len(q)))
           /\ \A i \in 1..Len(executed) :
                 ~(optimizations[executed[i]].confidence = 90
                       /\ optimizations[executed[i]].impact_score = 50)

\* A finished run over a ranked list of 6 qualifying candidates: the first
\* 5 were executed, the sixth was not.
FirstFiveOfSixExecuted ==
    /\ pc = "done"
    /\ Len(QualifyingPositions(optimizations)) = 6
    /\ ExecutedPositions(result.executed_optimizations) = <<1, 2, 3, 4, 5>>

\* optimize_schedule has a next step: a step of the analysis, of the loop
\* or of the cache call is enabled, or the run is at one of the steps that
\* only compute: Identify (line 90), the cache call or the return at the
\* end of the loop (line 113, with a client or without), the return after
\* the cache call.
ScheduleCanGoOn ==
    \/ ENABLED (PatternsDefault \/ GetSchedule \/ ExecuteOpportunity \/ SkipOpportunity
                   \/ \E i \in 1..MaxRuns : CacheWrite(i))
    \/ IdentifyNext
    \/ LoopOver
    \/ feature = Schedule /\ CacheCallOver

\* C3: in optimize_schedule, a selected candidate whose executor raised
\* has an entry in executed_optimizations with status 'failed' and the
\* error; the run never aborts and after such a failure can always go on to
\* its return; at the return every selected candidate has its entry, and
\* only those whose executor raised are 'failed'.
ExecutorFailureRecorded ==
    feature = Schedule =>
        /\ \A p \in 1..Len(optimizations) :
              <<"execute", p>> \in db_errors =>
                  \E i \in 1..Len(optimization_results) :
                      /\ optimization_results[i].cand = p
                      /\ optimization_results[i].status = "failed"
                      /\ optimization_results[i].error
        /\ pc /= "raised"
        /\ (\E p \in 1..Len(optimizations) : <<"execute", p>> \in db_errors) =>
              (pc = "done" \/ ScheduleCanGoOn)
        /\ pc = "done" =>
              LET q == QualifyingPositions(optimizations)
                  executed == result.executed_optimizations
              IN /\ ExecutedPositions(executed) = SubSeq(q, 1, Min2(5, Len(q)))
                 /\ \A i \in 1..Len(executed) :
                       (executed[i].status = "failed")
                           <=> (<<"execute", executed[i].cand>> \in db_errors)

\* A returned run in which the executor of one selected candidate raised
\* and a candidate ranked after it was executed without failure.
ExecutedAfterFailure ==
    /\ pc = "done" /\ feature = Schedule
    /\ \E i, j \in 1..Len(result.executed_optimizations) :
          /\ i < j
          /\ <<"execute", result.executed_optimizations[i].cand>> \in db_errors
          /\ result.executed_optimizations[i].status = "failed"
          /\ result.executed_optimizations[j].status /= "failed"

\* C4: in generate_predictive_tasks, when the task store raises while the
\* task of a selected candidate is created, the run does not abort and the
\* candidate is recorded among the auto-created tasks as failed.
AutoCreateFailureRecorded ==
    \A p \in 1..Len(ranked_tasks) :
        <<"create", p>> \in db_errors =>
            /\ pc /= "raised"
            /\ \E i \in 1..Len(auto_created) :
                  auto_created[i].rank = p /\ ~auto_created[i].auto_created

\* C5: generate_predictive_tasks never raises to its caller; when the
\* store is unavailable while the context is gathered, the run goes on
\* with a context.
PredictionNeverRaises ==
    feature = Predict =>
        /\ pc /= "raised"
        /\ <<"gather", 0>> \in db_errors => context /= Unset

\* C6: in optimize_schedule, when the store fails during pattern analysis,
\* the pattern is the fixed default (0.5 for every hour, peak hours
\* 9, 10, 14, 15, low-energy hours 12, 13, 16, 17, one focus block 9-11 of
\* score 0.8, tolerance 0.6), nothing is raised, the run can always go on
\* to its return, and it returns a result.
DefaultPatternOnStoreFailure ==
    <<"patterns", 0>> \in db_errors =>
        /\ productivity_map.hourly_productivity = [h \in 0..23 |-> F(50)]
        /\ productivity_map.peak_hours = <<9, 10, 14, 15>>
        /\ productivity_map.low_energy_hours = <<12, 13, 16, 17>>
        /\ Len(productivity_map.optimal_focus_blocks) = 1
        /\ productivity_map.optimal_focus_blocks[1].start_hour = 9
        /\ productivity_map.optimal_focus_blocks[1].end_hour = 11
        /\ productivity_map.optimal_focus_blocks[1].productivity_score = F(80)
        /\ productivity_map.context_switch_tolerance = F(60)
        /\ pc /= "raised"
        /\ pc = "done" \/ ScheduleCanGoOn
        /\ pc = "done" =>
              /\ result /= Unset
              /\ Len(result.executed_optimizations) = executed_count

\* A returned run whose pattern analysis failed, with the history holding
\* sessions, that executed an opportunity generated from the default
\* pattern.
ReturnedAfterPatternFailure ==
    /\ pc = "done"
    /\ <<"patterns", 0>> \in db_errors
    /\ sessions /= <<>>
    /\ Len(result.executed_optimizations) > 0

\* C7: when optimize_schedule returns, suggested_optimizations, returned
\* and cached, holds exactly the ranked candidates that were not executed,
\* in rank order.
SuggestedAreNotExecuted ==
    (pc = "done" /\ feature = Schedule) =>
        LET executed == Range(ExecutedPositions(result.executed_optimizations))
            rest == SelectSeq([i \in 1..Len(optimizations) |-> i],
                              LAMBDA i : i \notin executed)
            expected == [i \in 1..Len(rest) |-> optimizations[rest[i]]]
        IN /\ result.suggested_optimizations = expected
           /\ cache[CacheKey("schedule_optimizations", user_id)] /= <<>> =>
                 cache[CacheKey("schedule_optimizations", user_id)][1].suggested_optimizations = expected

\* Witness for C7: a returned run executed five candidates and cached its
\* result; the suggestions hold a candidate that passes both gates, left
\* over by the limit, and a candidate that does not pass them.
QualifyingAndOtherLeftSuggested ==
    /\ pc = "done" /\ feature = Schedule
    /\ Len(result.executed_optimizations) = 5
    /\ cache[CacheKey("schedule_optimizations", user_id)] /= <<>>
    /\ \E i, j \in 1..Len(result.suggested_optimizations) :
          /\ Qualifies(result.suggested_optimizations[i])
          /\ ~Qualifies(result.suggested_optimizations[j])

\* C8: when generate_predictive_tasks returns, no auto-created task is
\* among the returned suggested_tasks nor in the list cached for review.
AutoCreatedNotSuggested ==
    (pc = "done" /\ feature = Predict) =>
        \A i \in 1..Len(result.auto_created_tasks) :
            /\ \A j \in 1..Len(result.suggested_tasks) :
                  result.suggested_tasks[j].title /= result.auto_created_tasks[i].title
            /\ cache[CacheKey("predictions", user_id)] /= <<>> =>
                  \A j \in 1..Len(cache[CacheKey("predictions", user_id)][1]) :
                      cache[CacheKey("predictions", user_id)][1][j].title /= result.auto_created_tasks[i].title

\* The lists the four generators return for a context, and whether each
\* raises, at the clock values the generators read.
GeneratorRaises(ctx, read_at) ==
    <<PatternBasedRaises(ctx, read_at[1]), CalendarBasedRaises(ctx),
      GoalBasedRaises(ctx, read_at[3]), DeadlineBasedRaises(ctx, read_at[4])>>

GeneratorBuilds(ctx, read_at) ==
    <<PatternBasedTasks(ctx, read_at[1]), CalendarBasedTasks(ctx),
      GoalBasedTasks(ctx, read_at[3]), DeadlineBasedTasks(ctx, read_at[4])>>

GeneratorSource ==
    <<PredictionSource.PATTERN_BASED, PredictionSource.CALENDAR_BASED,
      PredictionSource.GOAL_BASED, PredictionSource.DEADLINE_BASED>>

Unscored(task) == [task EXCEPT !.importance_score = 0]

\* C9: once the four generators have run, a generator that raised
\* contributes nothing (not even what it had built before the failure),
\* and every other generator contributes exactly the list it returns for
\* the intact context; after ranking, no ranked task comes from a generator
\* that raised, every ranked task is a candidate of another generator,
\* unchanged but for its score, and every such candidate is ranked or has
\* a ranked candidate of the same normalized title standing for it.
GeneratorFailureIsolated ==
    (feature = Predict /\ pc \in {"rank", "create"}) =>
        LET raises == GeneratorRaises(context, ReadAt(completion))
            intact == GeneratorBuilds(GatherPredictionContext(tasks, FrozenReads(now)),
                                      ReadAt(completion))
        IN /\ \A g \in 1..4 :
                 predictions[g] = IF raises[g] THEN <<>> ELSE intact[g]
           /\ pc = "create" =>
                 /\ \A i \in 1..Len(ranked_tasks) :
                       \E g \in 1..4 :
                          /\ ~raises[g]
                          /\ ranked_tasks[i].source = GeneratorSource[g]
                          /\ \E j \in 1..Len(intact[g]) :
                                Unscored(ranked_tasks[i]) = Unscored(intact[g][j])
                 /\ \A g \in 1..4 : ~raises[g] =>
                       \A j \in 1..Len(intact[g]) :
                          \E i \in 1..Len(ranked_tasks) :
                             TitleKey(ranked_tasks[i]) = TitleKey(intact[g][j])

\* C9 witness: the deadline generator raised on a later deadline after
\* building candidates for an earlier one, the other three generators
\* returned candidates, and the ranking has been done.
DeadlineGeneratorFailedAfterBuilding ==
    /\ feature = Predict /\ pc = "create"
    /\ \E j \in 1..Len(context.upcoming_deadlines) :
          /\ DeadlineRaises(context.upcoming_deadlines[j], ReadAt(completion)[4])
          /\ \E i \in 1..(j - 1) :
                DeadlinePredictions(context.upcoming_deadlines[i],
                                    ReadAt(completion)[4]) /= <<>>
    /\ \A g \in 1..3 :
          /\ ~GeneratorRaises(context, ReadAt(completion))[g]
          /\ predictions[g] /= <<>>
    /\ \E i \in 1..Len(ranked_tasks) :
          ranked_tasks[i].source = PredictionSource.PATTERN_BASED

\* The generator outputs in declared order, then within-generator order.
Concatenated == predictions[1] \o predictions[2] \o predictions[3] \o predictions[4]

\* The positions of Concatenated whose normalized title occurs at no
\* earlier position.
FirstOccurrences ==
    SelectSeq([i \in 1..Len(Concatenated) |-> i],
              LAMBDA i : \A j \in 1..(i - 1) :
                            TitleKey(Concatenated[j]) /= TitleKey(Concatenated[i]))

\* C11: the list _combine_predictions returns for the generator outputs is
\* the first occurrence of every normalized title, in the order of the
\* concatenation, so no two of its candidates share a normalized title;
\* and the ranked list holds exactly these candidates.
CombineKeepsFirstOccurrences ==
    (feature = Predict /\ pc = "create") =>
        LET unique_predictions == CombinePredictions(predictions) IN
        /\ unique_predictions =
              [i \in 1..Len(FirstOccurrences) |-> Concatenated[FirstOccurrences[i]]]
        /\ \A i, j \in 1..Len(unique_predictions) :
              i /= j => TitleKey(unique_predictions[i]) /= TitleKey(unique_predictions[j])
        /\ Len(ranked_tasks) = Len(unique_predictions)
        /\ \A i \in 1..Len(unique_predictions) :
              \E j \in 1..Len(ranked_tasks) :
                 Unscored(ranked_tasks[j]) = Unscored(unique_predictions[i])

\* C11 witness: the pattern generator returned " Review PR ", a later
\* generator "review pr", and only the first is ranked.
LaterSpellingDropped ==
    /\ feature = Predict /\ pc = "create"
    /\ predictions[1] /= <<>>
    /\ predictions[1][1].title = <<SP, Word("review pr"), SP>>
    /\ predictions[3] /= <<>>
    /\ predictions[3][1].title = <<Plain("review pr")>>
    /\ \E j \in 1..Len(ranked_tasks) :
          ranked_tasks[j].title = <<SP, Word("review pr"), SP>>
    /\ \A j \in 1..Len(ranked_tasks) :
          ranked_tasks[j].title /= <<Plain("review pr")>>

\* C12: the ranked optimization list never holds two candidates whose
\* lower-cased, trimmed titles are equal.
RankedOptimizationTitlesDistinct ==
    (feature = Schedule /\ pc \in {"execute", "done"}) =>
        \A i, j \in 1..Len(optimizations) :
            i /= j => TitleKey(optimizations[i]) /= TitleKey(optimizations[j])

\* The locals of call i.
RunLocals(i) == IF frames[i] = Unset THEN Locals ELSE frames[i]

\* A call of generate_predictive_tasks that has ranked its candidates.
HasRanked(r) == r.feature = Predict /\ r.pc \in {"create", "caching", "done"}

\* C13: the ranked order is a deterministic function of the context: any two
\* calls of generate_predictive_tasks for one user that gathered the same
\* context ranked the same list.
RankedOrderOfContext ==
    \A i, j \in 1..Len(frames) :
        (/\ HasRanked(RunLocals(i)) /\ HasRanked(RunLocals(j))
         /\ RunLocals(i).user_id = RunLocals(j).user_id
         /\ RunLocals(i).context = RunLocals(j).context) =>
            RunLocals(i).ranked_tasks = RunLocals(j).ranked_tasks

\* The urgency bonus as the specification words it, in hundredths: the
\* time left until due_date, measured when the list is ranked, is at most
\* 1 day, at most 3 days, at most 7 days; nothing without a due date or
\* with more than 7 days left.
StatedUrgencyBonus(due_date, rank_time) ==
    IF due_date = NoTime THEN 0
    ELSE IF due_date - rank_time <= DaysDelta(1) THEN 30
    ELSE IF due_date - rank_time <= DaysDelta(3) THEN 20
    ELSE IF due_date - rank_time <= DaysDelta(7) THEN 10
    ELSE 0

StatedWeight(table, key) == IF key \in DOMAIN table THEN table[key] ELSE 50

\* C14: every ranked candidate has importance_score = clamp to [0, 1] of
\* 0.4 * confidence + 0.3 * priority_weight + urgency_bonus
\* + 0.2 * source_weight, with the stated weights and the stated bonus, the
\* sum taken in floats from left to right.
ImportanceScoreAsStated ==
    (feature = Predict /\ pc = "create") =>
        \A i \in 1..Len(ranked_tasks) :
            LET task == ranked_tasks[i]
                priority_weight ==
                    StatedWeight([low |-> 20, medium |-> 50, high |-> 80,
                                  critical |-> 100], task.priority)
                source_weight ==
                    StatedWeight([deadline_based |-> 90, calendar_based |-> 80,
                                  pattern_based |-> 70, goal_based |-> 60,
                                  ai_generated |-> 50], task.source)
                sum == FAdd(FAdd(FAdd(FMul(F(40), F(task.confidence)),
                                      FMul(F(30), F(priority_weight))),
                                 F(StatedUrgencyBonus(task.due_date, clock))),
                            FMul(F(20), F(source_weight)))
            IN task.importance_score = FMax(FZero, FMin(FInt(1), sum))


\* The ranks of the candidates auto-created so far.
CreatedRanks == {auto_created[k].rank : k \in 1..Len(auto_created)}

\* C15: in a returned prediction run, every ranked candidate whose
\* confidence is above the gate is auto-created when fewer than three
\* candidates were auto-created before it, at any rank.
AutoCreatedWhateverRank ==
    (feature = Predict /\ pc = "done") =>
        \A i \in 1..Len(ranked_tasks) :
            (/\ AutoCreates(ranked_tasks[i])
             /\ Cardinality({r \in CreatedRanks : r < i}) < TopN)
            => i \in CreatedRanks


\* The hourly scores of the scenario: 0.5 at every hour except 0.9 at
\* hour 10 and 0.95 at hour 11.
ScenarioScores ==
    [h \in Hours |-> IF h = 10 THEN F(90) ELSE IF h = 11 THEN F(95) ELSE F(50)]

\* C16: when the hourly scores are those of the scenario, peak_hours
\* includes hour 11 and hour 10 and excludes every hour whose score is 0.5.
ScenarioPeakHours ==
    (/\ feature = Schedule /\ productivity_map /= Unset
     /\ productivity_map.hourly_productivity = ScenarioScores) =>
        /\ 11 \in Range(productivity_map.peak_hours)
        /\ 10 \in Range(productivity_map.peak_hours)
        /\ \A h \in Hours :
              productivity_map.hourly_productivity[h] = F(50)
              => h \notin Range(productivity_map.peak_hours)


\* The mean of two hourly scores, as a float.
StatedMean(a, b) == FDivInt(FAdd(a, b), 2)

\* The start hours 0..21, ascending, whose two-hour window has a mean score
\* above 0.75.
StatedBlockStarts(hp) ==
    SelectSeq([i \in 1..22 |-> i - 1],
              LAMBDA h : FLess(F(75), StatedMean(hp[h], hp[h + 1])))

\* C17: in the computed pattern, optimal_focus_blocks holds exactly the
\* windows [h, h+2), h in 0..21, whose mean hourly score is above 0.75, in
\* ascending h, labelled 'high' above 0.85 and 'medium' otherwise; with the
\* scenario's scores the only block is (10, 12), score 0.925, 'high'.
FocusBlocksAsStated ==
    (feature = Schedule /\ productivity_map /= Unset /\ db_errors = {}) =>
        LET hp == productivity_map.hourly_productivity
            starts == StatedBlockStarts(hp)
            blocks == productivity_map.optimal_focus_blocks
        IN /\ Len(blocks) = Len(starts)
           /\ \A i \in 1..Len(starts) :
                 LET h == starts[i] IN
                 /\ blocks[i].start_hour = h
                 /\ blocks[i].end_hour = h + 2
                 /\ blocks[i].productivity_score = StatedMean(hp[h], hp[h + 1])
                 /\ blocks[i].focus_quality =
                       IF FLess(F(85), StatedMean(hp[h], hp[h + 1]))
                       THEN "high" ELSE "medium"
           /\ hp = ScenarioScores =>
                 blocks = <<[start_hour |-> 10, end_hour |-> 12,
                             productivity_score |-> FRatio(925, 1000),
                             focus_quality |-> "high"]>>

\* Witness for C17: a computed pattern with a 'high' block followed by a
\* 'medium' block, from sessions at the hours 11, 12 and 13.
HighThenMediumBlock ==
    /\ feature = Schedule /\ productivity_map /= Unset /\ db_errors = {}
    /\ Len(productivity_map.optimal_focus_blocks) = 2
    /\ productivity_map.optimal_focus_blocks[1].start_hour = 11
    /\ productivity_map.optimal_focus_blocks[1].focus_quality = "high"
    /\ productivity_map.optimal_focus_blocks[2].start_hour = 12
    /\ productivity_map.optimal_focus_blocks[2].focus_quality = "medium"


\* C18: when the store answers, context_switch_tolerance is
\* max(0.1, 1 - interrupted / total) over a history of at least one session
\* and the default 0.6 over an empty history; it always lies in [0.1, 1].
ToleranceAsStated ==
    (feature = Schedule /\ productivity_map /= Unset) =>
        LET tolerance == productivity_map.context_switch_tolerance
            total == Len(sessions)
            interrupted == Cardinality({i \in 1..total : sessions[i].interrupted})
        IN /\ (db_errors = {} /\ total > 0) =>
                 tolerance = FMax(F(10), FSub(FInt(1), FRatio(interrupted, total)))
           /\ (db_errors = {} /\ total = 0) => tolerance = F(60)
           /\ ~FLess(tolerance, F(10)) /\ ~FLess(FInt(1), tolerance)


\* The last call of _cache_predictions made for a user, 0 when there is none.
LastPredictCall(uid) ==
    LET calls == {i \in 1..Len(cache_calls) :
                     cache_calls[i].key = CacheKey("predictions", uid)}
    IN IF calls = {} THEN 0 ELSE CHOOSE i \in calls : \A j \in calls : j <= i

\* A run that has returned returns the value built from its locals,
\* whether its cache write wrote or raised.
ReturnUnaffectedByWrite ==
    (pc = "done" /\ redis /= None) =>
        /\ OwnCall > 0
        /\ cache_calls[OwnCall].status \in {"written", "failed"}
        /\ result =
              IF feature = Schedule
              THEN ScheduleReturnValue(
                      ScheduleResults(optimization_results, optimizations,
                                      executed_count))
              ELSE PredictionResult(auto_created, ranked_tasks)

\* get_cached_predictions, called for a user whose last prediction run had
\* its cache write raise, returns the empty list.
FetchAfterFailedWrite ==
    (fetched' /= fetched /\ "predictions" \in DOMAIN fetched') =>
        LET last == LastPredictCall(fetched'.user_id) IN
        (last > 0 /\ cache_calls[last].status = "failed")
        => fetched'.predictions = <<>>

\* C19: a cache write that raises is not fatal in either subsystem: the
\* run returns the value it returns after a successful write, and a later
\* get_cached_predictions for that user returns the empty list.
FailedCacheWriteNonFatal ==
    []ReturnUnaffectedByWrite /\ [][FetchAfterFailedWrite]_vars


\* The cache entry of a user and a feature, as the specification scopes it.
StatedEntry(uid, f) ==
    <<IF f = Schedule THEN "schedule_optimizations" ELSE "predictions", uid>>

\* Every written entry holds the whole value one run cached for the
\* entry's user and feature.
EntriesComplete ==
    \A key \in DOMAIN cache :
        cache[key] /= <<>> =>
            \E i \in 1..Len(cache_calls) :
                /\ cache_calls[i].status = "written"
                /\ key = StatedEntry(cache_calls[i].user_id, cache_calls[i].feature)
                /\ cache[key] = <<cache_calls[i].value>>

\* A step that changes an entry is the write of one run, and the entry is
\* the one of that run's user and feature.
WritesOnlyOwnEntry ==
    cache' /= cache =>
        \E i \in 1..Len(cache_calls) :
            /\ cache_calls[i].status = "awaiting"
            /\ cache_calls'[i].status = "written"
            /\ \A key \in DOMAIN cache :
                  cache'[key] /= cache[key] =>
                      /\ key = StatedEntry(cache_calls[i].user_id,
                                           cache_calls[i].feature)
                      /\ cache'[key] = <<cache_calls[i].value>>

\* C20: under any interleaving of runs, a run for user u and feature f
\* writes only the entry of (u, f), never the entry of another user or of
\* the other feature, and every entry equals the complete value written by
\* one single run for its user and feature.
CacheWritesScoped ==
    []EntriesComplete /\ [][WritesOnlyOwnEntry]_vars

\* Witness for C20: two runs of one user and feature cached different
\* values, the entry of another user is unwritten, and the entry holds the
\* value of the run that started first: its write landed after the write
\* of the run that started while it was awaited.
FirstRunWroteLast ==
    /\ Len(cache_calls) = 2
    /\ cache_calls[1].key = cache_calls[2].key
    /\ cache_calls[1].value /= cache_calls[2].value
    /\ cache_calls[1].status = "written"
    /\ cache_calls[2].status = "written"
    /\ cache[cache_calls[1].key] = <<cache_calls[1].value>>
    /\ \E key \in DOMAIN cache : cache[key] = <<>>


\* The loop positions whose executor call has returned, in order of return.
ReturnedCalls ==
    IF feature = Schedule
    THEN ExecutedPositions(optimization_results)
    ELSE [k \in 1..Len(auto_created) |-> auto_created[k].rank]

\* A step that makes an executor call makes it while no call is in flight,
\* for a candidate ranked after every candidate whose call has returned.
CallStartsAfterPrevious ==
    in_flight' /= in_flight /\ in_flight' \ in_flight /= {} =>
        /\ in_flight = {}
        /\ \A p \in in_flight' : \A k \in 1..Len(ReturnedCalls) : ReturnedCalls[k] < p

\* The step that calls redis.setex, and the step that returns, is taken
\* when no executor call is in flight and the loop has passed the last
\* candidate it examines.
CacheWriteAfterLastCall ==
    (Len(cache_calls') > Len(cache_calls) \/ (pc' = "done" /\ pc /= "done")) =>
        /\ in_flight = {}
        /\ pos > (IF feature = Schedule THEN Len(optimizations)
                  ELSE Len(TopRanked(ranked_tasks)))

\* C21: within a run the selected candidates are executed one after the
\* other in rank order: at most one executor call is in flight, the next
\* call starts only after the previous one returned or failed, and the
\* cache write starts only after the last call has finished.
ExecutionSequential ==
    /\ [](Cardinality(in_flight) <= 1)
    /\ [][CallStartsAfterPrevious /\ CacheWriteAfterLastCall]_vars

\* Witness for C21: the call for a later candidate is in flight after an
\* earlier call has failed and another has returned.
CallInFlightAfterFailure ==
    /\ feature = Schedule
    /\ in_flight /= {}
    /\ Len(optimization_results) >= 2
    /\ \E k \in 1..Len(optimization_results) : optimization_results[k].status = "failed"
    /\ \E k \in 1..Len(optimization_results) : optimization_results[k].status /= "failed"


\* The rows written since the run was called: those after the rows the
\* store held then.
WrittenRows == SubSeq(tasks, found + 1, Len(tasks))

\* The ranks of the predictions whose auto-creation raised.
FailedRanks == {p \in 1..TopN : <<"create", p>> \in db_errors}

\* Whether a written row is the row of a selected candidate: of an executed
\* block-focus-time optimization, of an auto-created prediction, or of a
\* prediction above the gate whose auto-creation raised after the commit.
RowOfSelected(row) ==
    \/ /\ feature = Schedule
       /\ \E k \in 1..Len(optimization_results) :
             LET o == optimizations[optimization_results[k].cand] IN
             /\ o.optimization_type = OptimizationType.BLOCK_FOCUS_TIME
             /\ Qualifies(o)
             /\ row.user_id = user_id
             /\ row.title = Text("focus block")
             /\ row.due = o.suggested_time
    \/ /\ feature = Predict
       /\ \E k \in 1..Len(auto_created) :
             /\ ranked_tasks[auto_created[k].rank].confidence > 85
             /\ row.user_id = user_id
             /\ row.title = ranked_tasks[auto_created[k].rank].title
    \/ /\ feature = Predict
       /\ \E p \in FailedRanks :
             /\ ranked_tasks[p].confidence > 85
             /\ row.user_id = user_id
             /\ row.title = ranked_tasks[p].title

\* The store keeps the rows it held when the run was called; every row
\* written since is the row of a selected candidate and there are no more
\* written rows than selected candidates.
RowsOfSelectedOnly ==
    /\ found <= Len(tasks)
    /\ \A i \in 1..Len(WrittenRows) : RowOfSelected(WrittenRows[i])
    /\ Len(WrittenRows) <= Len(optimization_results) + Len(auto_created)
                              + Cardinality(FailedRanks)

\* A step that changes the task store adds one row and is the execution of
\* the candidate at the loop's position, which passes the gate; gathering,
\* generating, ranking, skipping and returning change nothing.
StoreWrittenByExecutionOnly ==
    tasks' /= tasks =>
        /\ Len(tasks') = Len(tasks) + 1
        /\ SubSeq(tasks', 1, Len(tasks)) = tasks
        /\ \/ /\ feature = Schedule /\ pc = "execute"
              /\ Qualifies(optimizations[pos])
              /\ Len(optimization_results') = Len(optimization_results) + 1
           \/ /\ feature = Predict /\ pc = "create"
              /\ ranked_tasks[pos].confidence > 85
              /\ \/ Len(auto_created') = Len(auto_created) + 1
                 \/ FailedRanks' = FailedRanks \cup {pos}

\* C22: only candidates selected for execution write to the task store:
\* every row written is the row of an auto-created prediction or of an
\* executed block-focus-time optimization, the rows written are at most as
\* many as the selected candidates, and no other step writes a row.
OnlySelectedWriteRows ==
    []RowsOfSelectedOnly /\ [][StoreWrittenByExecutionOnly]_vars

\* Witness for C22: a returned scheduling run wrote the row of a focus
\* block, executed a candidate that writes no row, and left candidates for
\* review.
FocusRowWrittenOthersLeft ==
    /\ feature = Schedule /\ pc = "done"
    /\ Len(WrittenRows) >= 1
    /\ Len(WrittenRows) < Len(optimization_results)
    /\ result.suggested_optimizations /= <<>>


\* C23: every candidate a generator of either subsystem produces has a
\* confidence between 0 and 1, the pattern-task candidates included, whose
\* confidence is the pattern's occurrence_rate or frequency.
GeneratedConfidenceInRange ==
    /\ \A g \in 1..Len(predictions) : \A i \in 1..Len(predictions[g]) :
          /\ 0 <= predictions[g][i].confidence
          /\ predictions[g][i].confidence <= 100
    /\ \A i \in 1..Len(optimizations) :
          /\ 0 <= optimizations[i].confidence
          /\ optimizations[i].confidence <= 100

\* Witness for C23: the pattern generator has produced the Monday task
\* 'Email review' with its occurrence_rate 0.9 as confidence and the 9
\* o'clock task 'Deep work session' with its frequency 0.6.
PatternRatesCopied ==
    /\ feature = Predict /\ pc = "rank"
    /\ \E i \in 1..Len(predictions[1]) :
          /\ predictions[1][i].title = Text("email review")
          /\ predictions[1][i].confidence = 90
    /\ \E i \in 1..Len(predictions[1]) :
          /\ predictions[1][i].title = Text("deep work session")
          /\ predictions[1][i].confidence = 60


\* The impact scores and the confidences of the executed candidates, in
\* order of execution.
ExecutedImpacts ==
    [i \in 1..Len(optimization_results) |->
        optimizations[optimization_results[i].cand].impact_score]

ExecutedConfidences ==
    [i \in 1..Len(optimization_results) |->
        optimizations[optimization_results[i].cand].confidence]

\* C24: every entry of executed_optimizations, whatever its status ('failed'
\* included), carries the impact_score of its candidate as
\* productivity_gain_estimate and the candidate's confidence as confidence,
\* so that total_productivity_gain and average_confidence of the returned
\* impact summary are the sum and the mean of the candidates' values.
ExecutedCarryCandidateValues ==
    /\ \A i \in 1..Len(optimization_results) :
          /\ optimization_results[i].productivity_gain_estimate = ExecutedImpacts[i]
          /\ optimization_results[i].confidence = ExecutedConfidences[i]
    /\ (feature = Schedule /\ pc = "done" /\ optimization_results /= <<>>) =>
          /\ result.executed_optimizations = optimization_results
          /\ result.impact_summary.total_productivity_gain =
                FSum([i \in 1..Len(ExecutedImpacts) |-> F(ExecutedImpacts[i])])
          /\ result.impact_summary.average_confidence =
                NpMean([i \in 1..Len(ExecutedConfidences) |-> F(ExecutedConfidences[i])])

\* Witness for C24: a run has returned whose executed entries include a
\* focus block the store refused ('failed') and an entry that succeeded.
FailedEntryInSummary ==
    /\ feature = Schedule /\ pc = "done"
    /\ \E i, j \in 1..Len(result.executed_optimizations) :
          /\ result.executed_optimizations[i].status = "failed"
          /\ result.executed_optimizations[i].productivity_gain_estimate > 0
          /\ result.executed_optimizations[j].status \in {"created", "rescheduled"}


(***************************************************************************)
(* _deadline_based_prediction on any time remaining (lines 390-469): the   *)
(* gathered context with one deadline whose date lies the given number of  *)
(* hours after the latest moment the generators can read the clock.        *)
(***************************************************************************)
RemainingHours == {0 - 1, 12, 24, 36, 48, 84, 180, 216}

DeadlineInputs(time) ==
    {<<[title |-> Text("tax filing"), date |-> time + HoursDelta(h), complexity |-> c]>> :
        h \in RemainingHours, c \in {60, 80}}

InitUrgency ==
    /\ feature = Predict
    /\ now \in PredictNows
    /\ date_range = <<now, now>>
    /\ sessions = <<>>
    /\ tasks = <<>>
    /\ redis = "client"
    /\ cache = EmptyCache
    /\ pc = "generate"
    /\ pos = 0
    /\ productivity_map = Unset
    /\ current_schedule = <<>>
    /\ optimizations = <<>>
    /\ optimization_results = <<>>
    /\ executed_count = 0
    /\ \E deadlines \in DeadlineInputs(now + ClockStep) :
          context = [GatherPredictionContext(tasks, FrozenReads(now)) EXCEPT
                        !.upcoming_deadlines = deadlines]
    /\ predictions = <<>>
    /\ completion = <<>>
    /\ clock = now
    /\ ranked_tasks = <<>>
    /\ auto_created = <<>>
    /\ result = Unset
    /\ db_errors = {}
    /\ utc_shift \in UtcShifts
    /\ InitCalls

SpecUrgency == InitUrgency /\ [][NextGenerate]_vars

\* The candidates the specification gives a deadline: none once it has
\* passed, else the tier of the time remaining and the buffer task.
StatedDeadlinePredictions(deadline, current_time) ==
    LET remaining == deadline.date - current_time IN
    IF remaining <= 0 THEN <<>>
    ELSE (IF remaining <= DaysDelta(1)
          THEN <<PredictedTask(<<Word("urgent prep:"), SP>> \o deadline.title, 60, 95,
                     PredictionSource.DEADLINE_BASED, "critical",
                     deadline.date - HoursDelta(2))>>
          ELSE IF remaining <= DaysDelta(3)
          THEN <<PredictedTask(<<Word("prepare for:"), SP>> \o deadline.title, 45, 85,
                     PredictionSource.DEADLINE_BASED, "high", NoTime)>>
          ELSE IF remaining <= DaysDelta(7)
          THEN <<PredictedTask(<<Word("plan approach for:"), SP>> \o deadline.title, 30, 70,
                     PredictionSource.DEADLINE_BASED, "medium", NoTime)>>
          ELSE <<>>)
      \o (IF GetOr(deadline.complexity, 0) > 70
          THEN <<PredictedTask(<<Word("buffer time:"), SP>> \o deadline.title, 30, 60,
                     PredictionSource.DEADLINE_BASED, "medium",
                     deadline.date - DaysDelta(1))>>
          ELSE <<>>)

\* C25: for every deadline that has not passed the deadline generator
\* emits exactly one urgency-tier candidate chosen by the time remaining
\* (within 1 day 0.95 / critical, within 3 days 0.85 / high, within 7 days
\* 0.7 / medium, none beyond), and one buffer task due a day before the
\* deadline when complexity > 0.7; a deadline less than 24 hours ahead
\* gets the critical candidate.
DeadlineTiersAsStated ==
    (feature = Predict /\ pc = "rank") =>
        predictions[4] =
            Flatten([i \in 1..Len(context.upcoming_deadlines) |->
                StatedDeadlinePredictions(context.upcoming_deadlines[i],
                                          ReadAt(completion)[4])])

\* The number of hours that come before hour h when the 24 hours are
\* ordered by score descending, equal scores by ascending hour.
StatedPlace(hp, h) ==
    Cardinality({g \in Hours : FLess(hp[h], hp[g]) \/ (hp[g] = hp[h] /\ g < h)})

\* C27: in the computed pattern, with the 24 hours ordered by
\* avg_focus_score descending and ties by ascending hour, peak_hours is the
\* first 6 hours of the order and low_energy_hours the last 6; both lists
\* have 6 entries and share no hour.
QuartilesOfStatedOrder ==
    (feature = Schedule /\ productivity_map /= Unset /\ db_errors = {}) =>
        LET hp == productivity_map.hourly_productivity
            peak == productivity_map.peak_hours
            low == productivity_map.low_energy_hours
        IN /\ Len(peak) = 6 /\ Len(low) = 6
           /\ \A i \in 1..6 : StatedPlace(hp, peak[i]) = i - 1
           /\ \A i \in 1..6 : StatedPlace(hp, low[i]) = 17 + i
           /\ Range(peak) \cap Range(low) = {}

\* Witness for C27: a computed pattern with a best hour 22, a worst hour 14
\* and ties at the default score on both sides: hour 0 is a peak hour and
\* hour 23 a low-energy hour.
TiesFillBothQuartiles ==
    /\ feature = Schedule /\ productivity_map /= Unset /\ db_errors = {}
    /\ productivity_map.peak_hours[1] = 22
    /\ productivity_map.peak_hours[2] = 0
    /\ productivity_map.low_energy_hours[5] = 23
    /\ productivity_map.low_energy_hours[6] = 14


\* The confidence and the impact the generators assign to each type.
GeneratorConstants(type) ==
    CASE type = OptimizationType.BLOCK_FOCUS_TIME -> <<90, 80>>
      [] type = OptimizationType.RESCHEDULE_LOW_ENERGY_TASKS -> <<85, 70>>
      [] type = OptimizationType.MOVE_MEETING_FROM_PEAK_FOCUS -> <<80, 60>>
      [] type = OptimizationType.CONSOLIDATE_MEETINGS -> <<70, 50>>

NeverExecutedTypes ==
    {OptimizationType.MOVE_MEETING_FROM_PEAK_FOCUS, OptimizationType.CONSOLIDATE_MEETINGS}

\* C28: with the constants the generators assign, only block-focus-time
\* (0.9 / 0.8) and reschedule-low-energy-task (0.85 / 0.7) candidates are
\* executed; move-meeting (0.8 / 0.6) and consolidate-meetings (0.7 / 0.5)
\* candidates fail the strict gates in every run and end in
\* suggested_optimizations, and no executed entry has status 'suggested'.
OnlyGatePassingTypesExecuted ==
    /\ \A i \in 1..Len(optimizations) :
          <<optimizations[i].confidence, optimizations[i].impact_score>> =
              GeneratorConstants(optimizations[i].optimization_type)
    /\ \A i \in 1..Len(optimization_results) :
          /\ optimizations[optimization_results[i].cand].optimization_type
                \notin NeverExecutedTypes
          /\ optimization_results[i].status /= "suggested"
    /\ (feature = Schedule /\ pc = "done") =>
          \A i \in 1..Len(optimizations) :
              optimizations[i].optimization_type \in NeverExecutedTypes =>
                  /\ i > executed_count
                  /\ result.suggested_optimizations[i - executed_count] = optimizations[i]

\* Witness for C28: a run has returned that executed candidates and left a
\* move-meeting candidate among the suggestions.
MeetingMoveLeftSuggested ==
    /\ feature = Schedule /\ pc = "done"
    /\ result.executed_optimizations /= <<>>
    /\ \E i \in 1..Len(result.suggested_optimizations) :
          result.suggested_optimizations[i].optimization_type =
              OptimizationType.MOVE_MEETING_FROM_PEAK_FOCUS


\* A prediction run whose auto-creation failed at some rank.
CreateFailed == feature = Predict /\ FailedRanks /= {}

\* The rows written since the run was called are the rows of the
\* candidates at these ranks, in this order, each the row
\* _auto_create_task builds, whatever time the store stamped on it.
WrittenAre(ranks) ==
    /\ Len(WrittenRows) = Len(ranks)
    /\ \A k \in 1..Len(ranks) :
          WrittenRows[k] =
              AutoTaskRow(user_id, ranked_tasks[ranks[k]], WrittenRows[k].created_at)

\* The run ended by the exception: nothing returned, nothing cached, and
\* the rows of the candidates created before the failure still stored, in
\* the order created; after them the row of the failed candidate, when the
\* store raised after the commit.
EndedByException ==
    /\ pc = "raised"
    /\ result = Unset
    /\ cache = EmptyCache
    /\ LET created == [k \in 1..Len(auto_created) |-> auto_created[k].rank]
       IN \/ WrittenAre(created)
          \/ \E p \in FailedRanks : WrittenAre(Append(created, p))

\* C29: when auto-creating the task of the j-th selected candidate raises,
\* the run ends with the exception propagated and without a cache entry,
\* and the rows committed for the selected candidates before j stay in the
\* task store.
FailedCreateEndsRun ==
    /\ [](CreateFailed => EndedByException)
    /\ [][(CreateFailed' /\ ~CreateFailed) =>
              SubSeq(tasks', 1, Len(tasks)) = tasks]_vars

\* Witness for C29: the second selected candidate failed before its commit,
\* after the row of the first was committed.
SecondCreateFailed ==
    /\ CreateFailed /\ pc = "raised"
    /\ Len(auto_created) = 1
    /\ Len(WrittenRows) = 1


(***************************************************************************)
(* generate_predictive_tasks called again and again for one user (lines    *)
(* 70-117), each call after the call before has returned: it finds the     *)
(* task store as that call left it and starts at the latest time read so   *)
(* far.  The store and the cache client answer.                            *)
(***************************************************************************)
RunAgain ==
    /\ feature = Predict /\ pc = "done"
    /\ StartRun(Predict, user_id)

InitRerun ==
    /\ feature = Predict
    /\ now \in PredictNows
    /\ date_range = <<now, now>>
    /\ sessions = <<>>
    /\ tasks \in TaskTables(now)
    /\ redis = "client"
    /\ utc_shift \in UtcShifts
    /\ InitLocals

NextRerun ==
    \/ GatherContext
    \/ RunGenerator
    \/ GatherReturns
    \/ Rank
    \/ AutoCreateTask
    \/ SkipTask
    \/ PredictCacheCall
    \/ \E i \in 1..MaxRuns : CacheWrite(i)
    \/ PredictReturn
    \/ RunAgain

SpecRerun == InitRerun /\ [][NextRerun]_vars

\* The titles of the candidates run i auto-created.
CreatedTitles(i) ==
    {cache_calls[i].returns.auto_created_tasks[k].title :
        k \in 1..Len(cache_calls[i].returns.auto_created_tasks)}

\* The number of rows of that title written since the first run was
\* called: those after the rows the store held then.
RowsWritten(title) ==
    Cardinality({k \in (RunLocals(1).found + 1)..Len(tasks) : tasks[k].title = title})

\* Every auto-creating iteration appends the row of its candidate, whatever
\* the store holds and whatever time the store stamps on the row.
CreationUnguarded ==
    (feature = Predict /\ pc = "create" /\ Len(auto_created') = Len(auto_created) + 1) =>
        /\ Len(tasks') = Len(tasks) + 1
        /\ SubSeq(tasks', 1, Len(tasks)) = tasks
        /\ tasks'[Len(tasks')] =
              AutoTaskRow(user_id, ranked_tasks[pos], tasks'[Len(tasks')].created_at)

\* C30: auto-creation is not guarded across runs: a later run over an
\* unchanged context writes a new row for each candidate it selects, and
\* after n runs the store holds n rows for every candidate selected in each
\* of them.
RowsMultiplyAcrossRuns ==
    /\ []((feature = Predict /\ pc = "done") =>
            \A title \in UNION {CreatedTitles(i) : i \in 1..Len(cache_calls)} :
                (\A i \in 1..Len(cache_calls) : title \in CreatedTitles(i)) =>
                    RowsWritten(title) = Len(cache_calls))
    /\ [][CreationUnguarded]_vars

\* Witness for C30: the second run has returned after auto-creating the
\* candidate the first run auto-created, and the store holds two rows of it.
SecondRunWroteAgain ==
    /\ feature = Predict /\ pc = "done"
    /\ Len(cache_calls) = 2
    /\ \E title \in CreatedTitles(1) \cap CreatedTitles(2) : RowsWritten(title) = 2

====
